---- MODULE Spec2Model ----
(***************************************************************************)
(* Verification model of the Phantom relayer.                              *)
(*                                                                         *)
(*   SpecVN    ValidatorNetwork.verifyProof / requestValidation            *)
(*             (backend/src/validatorNetwork.js)                           *)
(*   SpecPipe  submitSwap / submitWithdraw calling verifyProof             *)
(*             (backend/src/index.js)                                      *)
(*   SpecCoord the validator coordinator: registry and POST /verify        *)
(*             (unnamed/part_001)                                          *)
(*                                                                         *)
(* Voting powers are staked balances (uint256), so they are naturals.      *)
(***************************************************************************)
EXTENDS Integers, Sequences, FiniteSets, TLC

\* ------------------------------------------------------------------ bounds
MaxValidators == 3
MaxPowerUnits == 2
MaxPipeValidators == 2
MaxStakers == 2
MaxConns == 2
MaxVerify == 1
MaxLookups == 1
MaxAttempts == 4
MaxIntents == 1
MaxUsers == 2
MaxTime == 2
MaxHandlerValidators == 1
TreeDepth == 2
IntentDeadline == 1
MaxAmount == 2
MaxRegistryLookups == 2
MaxChain == 2
MaxFanout == 2
MaxSockets == 4

\* ------------------------------------------------------- program constants
DefaultThresholdBps == 6600
MaxRetries == 3
THRESHOLD_BPS == 6600
MinStake == 1000
DefaultTimeoutMs == 20000
DefaultRetryBaseMs == 500

Powers == {100 * i : i \in 0..MaxPowerUnits}
ThresholdChoices == {DefaultThresholdBps, 5000}

VARIABLES
  validators,       \* this.validators: number of configured endpoints, urls 1..validators
  thresholdBps,     \* this.thresholdBps
  vnPc,             \* position of the verifyProof call: idle, collecting, done
  vnArgs,           \* (proof, publicInputs) the call was made with
  req,              \* per endpoint: the requestValidation promise
  vnResult,         \* what verifyProof returned (or that it threw)
  bypass,           \* DEV_BYPASS_VALIDATORS
  pipePc,           \* position of submitSwap / submitWithdraw
  pipeKind,         \* which of the two is running
  validationResult, \* local validationResult of submitSwap / submitWithdraw
  attested,         \* (proof, publicSignals) validationResult was obtained for
  onchain,          \* on-chain calls the running request has made so far
  httpResponse,     \* what the /swap or /withdraw handler answered
  conn,             \* coordinator: per WebSocket its state and its `address`
  lookups,          \* coordinator: register messages awaiting getVotingPower
  stakers,          \* coordinator: the stakers Map, in insertion order
  vreq,             \* coordinator: the POST /verify requests
  rvCfg,            \* requestValidation: this.timeout, this.maxRetries, this.retryBaseMs
  rvPc,             \* requestValidation: idle, inflight, backoff, returned
  rvAttempt,        \* requestValidation: the loop variable `attempt`
  rvNow,            \* requestValidation: milliseconds since the call
  rvLog,            \* requestValidation: the posts made and the delays waited
  rvValue,          \* requestValidation: what the call returned
  dryRun,           \* RELAYER_DRY_RUN
  now,              \* Date.now(), in deadline units
  intents,          \* the intents Map: intentId k is the k-th accepted payload
  receipts,         \* the receipts Map: per intentId the receipt stored, if any
  hPc,              \* /swap or /withdraw handler: idle, accepted, answered, hung
  hReq,             \* the request body the running handler parsed
  hReceipt,         \* the running handler has stored a receipt
  lgCommitments,    \* ledger: the commitments inserted so far, in order
  lgFilled,         \* ledger: the filled subtree of every level
  lgRoot,           \* ledger: the current root
  commitments,      \* the list handed to rebuildIncrementalTree / buildMerklePath
  tRebuilt,         \* what rebuildIncrementalTree(commitments) returned
  tPath,            \* what buildMerklePath(commitments, targetIndex) returned
  tRecombined,      \* what computeMerkleRootFromPath made of tPath
  mOp,              \* path look-up running: none, get (GET /merkle), fetch
  mPc,              \* its position: idle, root, sync, build, done
  mTarget,          \* the commitment it looks for
  mOnChainRoot,     \* GET /merkle: onChainRoot
  mSynced,          \* the commitments it read from the ledger
  mResponse,        \* what it answered or returned
  devBypassProofs,  \* DEV_BYPASS_PROOFS
  swapData,         \* the argument of generateSwapProof
  gPc,              \* generateSwapProof: idle, proving, returned, threw
  circuitInputs,    \* generateSwapProof: its local circuitInputs
  proverInputs,     \* the inputs the prover was called with
  debugArtifact,    \* generateSwapProof: debug_last_swap_inputs.json
  gLog,             \* generateSwapProof: the mismatches it logged
  bkEnv,            \* proveWithRapidsnarkOrSnarkjs: what exists on the machine
  bkPc,             \* its position: idle, witness, rapidsnark, zk-kit, snarkjs, ...
  bkFiles,          \* the temporary files of the call that exist
  bkMade,           \* the temporary files the call has created so far
  bkTried,          \* the backends invoked so far, in order
  bkResult,         \* the backend whose proof the call returned
  sPc,              \* settlement: idle, consensus, refresh, validated, settled, failed
  sKind,            \* settlement: swap or withdraw
  sPi,              \* settlement: swapData.publicInputs resp. withdrawData.publicInputs
  sSignals,         \* settlement: publicSignals handed to verifyProof
  sMerkle,          \* settlement: the locals merkleRoot, merklePath, merklePathIndices
  sTuple,           \* settlement: the public inputs tuple of the on-chain call
  mfPath,           \* Merkle formatting: the caller's merklePath
  mfIndices,        \* Merkle formatting: the caller's merklePathIndices
  mfOut,            \* Merkle formatting: the function applied and its two arrays
  cSocks,           \* validator client: the WebSockets connect() created, in order
  cTimers,          \* validator client: remaining ms of the pending setTimeout(connect)
  cSinceClose,      \* validator client: ms since the last close event
  cFaults           \* validator client: connections lost or refused so far

vnVars == <<validators, thresholdBps, vnPc, vnArgs, req, vnResult>>
pipeVars == <<bypass, pipePc, pipeKind, validationResult, attested, onchain, httpResponse>>
coordVars == <<conn, lookups, stakers, vreq>>
retryVars == <<rvCfg, rvPc, rvAttempt, rvNow, rvLog, rvValue>>
handlerVars == <<dryRun, now, intents, receipts, hPc, hReq, hReceipt>>
ledgerVars == <<lgCommitments, lgFilled, lgRoot>>
treeVars == <<commitments, tRebuilt, tPath, tRecombined>>
syncVars == <<mOp, mPc, mTarget, mOnChainRoot, mSynced, mResponse>>
proofVars ==
  <<devBypassProofs, swapData, gPc, circuitInputs, proverInputs, debugArtifact, gLog>>
backendVars == <<bkEnv, bkPc, bkFiles, bkMade, bkTried, bkResult>>
settleVars == <<sPc, sKind, sPi, sSignals, sMerkle, sTuple>>
merkleFmtVars == <<mfPath, mfIndices, mfOut>>
clientVars == <<cSocks, cTimers, cSinceClose, cFaults>>
moreVars == <<settleVars, merkleFmtVars, clientVars>>
extVars ==
  <<retryVars, handlerVars, ledgerVars, treeVars, syncVars, proofVars, backendVars,
    moreVars>>
vars == <<vnVars, pipeVars, coordVars, extVars>>

\* ------------------------------------------------------------ response data
\* A settled requestValidation promise carries response.data or null.
NullResp ==
  [kind |-> "null", valid |-> FALSE, hasPower |-> FALSE, votingPower |-> 0,
   validator |-> 0, totalVotingPower |-> 0, validVotingPower |-> 0,
   signatures |-> <<>>]

\* body of a validator's own answer: {valid, validator, votingPower, signature}
VoteResp(v, valid, hasPower, power) ==
  [kind |-> "vote", valid |-> valid, hasPower |-> hasPower, votingPower |-> power,
   validator |-> v, totalVotingPower |-> 0, validVotingPower |-> 0,
   signatures |-> <<>>]

\* body of a coordinator's answer: {aggregated:true, totalVotingPower, ...}
AggResp(v, total, validPower, sigs) ==
  [kind |-> "agg", valid |-> FALSE, hasPower |-> FALSE, votingPower |-> 0,
   validator |-> v, totalVotingPower |-> total, validVotingPower |-> validPower,
   signatures |-> sigs]

\* one entry of a signatures list
SigEntry(v, power, sig) == [validator |-> v, votingPower |-> power, signature |-> sig]

\* the signatures a coordinator answer may carry when some power voted valid:
\* none, or one signed entry followed by one entry whose signature is missing
AggSignatureLists(v, power) ==
  IF power = 0 THEN {<<>>}
  ELSE {<<>>, <<SigEntry(v * 10 + 1, power, "sig"), SigEntry(v * 10 + 2, 0, "none")>>}

\* the (totalVotingPower, validVotingPower) a coordinator answer may carry:
\* no power at all, or the largest power with none, half or all of it valid
AggTotals ==
  LET top == 100 * MaxPowerUnits
  IN {<<0, 0>>, <<top, 0>>, <<top, top \div 2>>, <<top, top>>}

Bodies(v) ==
  {VoteResp(v, b, TRUE, p) : b \in BOOLEAN, p \in Powers}
    \cup {VoteResp(v, TRUE, FALSE, 0)}
    \cup UNION {{AggResp(v, tp[1], tp[2], s) : s \in AggSignatureLists(v, tp[2])} :
                 tp \in AggTotals}

IdleReq == [st |-> "idle", attempt |-> 0, value |-> NullResp]

NoResult ==
  [outcome |-> "none", valid |-> FALSE, signatures |-> <<>>,
   totalVotingPower |-> 0, validVotingPower |-> 0, reason |-> ""]

\* ------------------------------------------- ValidatorNetwork.verifyProof
ValidationsUnfiltered(results) == results

\* results.filter(r => r.status === 'fulfilled' && r.value).map(r => r.value)
Validations(results) == SelectSeq(results, LAMBDA r : r.kind # "null")

\* validations.find(v => v.aggregated): index of the first one, 0 if none
RECURSIVE FindAggregated(_, _)
FindAggregated(vals, i) ==
  IF i > Len(vals) THEN 0
  ELSE IF vals[i].kind = "agg" THEN i
  ELSE FindAggregated(vals, i + 1)

\* the tally loop: totalVotingPower += power for every validation
RECURSIVE TotalVotingPower(_)
TotalVotingPower(vals) ==
  IF vals = <<>> THEN 0
  ELSE vals[1].votingPower + TotalVotingPower(Tail(vals))

\* the tally loop: validVotingPower += power if (v.valid)
RECURSIVE ValidVotingPower(_)
ValidVotingPower(vals) ==
  IF vals = <<>> THEN 0
  ELSE (IF vals[1].valid THEN vals[1].votingPower ELSE 0)
         + ValidVotingPower(Tail(vals))

\* BigInt(v.votingPower) throws a TypeError when the body has no votingPower
TallyThrows(vals) == \E i \in 1..Len(vals) : ~vals[i].hasPower

ThresholdMetDirectStrict(total, validPower, bps) ==
  validPower * 10000 > total * bps

\* direct branch, after the zero-power return:
\* (validVotingPower * 10000n) >= (totalVotingPower * BigInt(thresholdBps))
ThresholdMetDirect(total, validPower, bps) ==
  validPower * 10000 >= total * bps

ThresholdMetAggregatedNoZeroCheck(total, validPower, bps) ==
  validPower * 10000 >= total * bps

ThresholdMetAggregatedStrict(total, validPower, bps) ==
  total > 0 /\ validPower * 10000 > total * bps

\* aggregated branch:
\* totalVotingPower > 0n && (validVotingPower * 10000n) >= (total * bps)
ThresholdMetAggregated(total, validPower, bps) ==
  total > 0 /\ validPower * 10000 >= total * bps

\* validations.filter(v => v.valid).map(v => ({validator, votingPower, signature}))
ValidSignaturesDirect(vals) ==
  LET valid == SelectSeq(vals, LAMBDA v : v.valid)
  IN [i \in 1..Len(valid) |->
        SigEntry(valid[i].validator, valid[i].votingPower, "sig")]

ValidSignaturesAggregatedUnfiltered(agg) == agg.signatures

\* (aggregated.signatures || []).filter(s => s.signature)
ValidSignaturesAggregated(agg) ==
  SelectSeq(agg.signatures, LAMBDA s : s.signature # "none")

Returned(valid, sigs, total, validPower, reason) ==
  [outcome |-> "returned", valid |-> valid, signatures |-> sigs,
   totalVotingPower |-> total, validVotingPower |-> validPower,
   reason |-> reason]

Threw ==
  [outcome |-> "threw", valid |-> FALSE, signatures |-> <<>>,
   totalVotingPower |-> 0, validVotingPower |-> 0, reason |-> "TypeError"]

verifyProofAggregated(agg, bps) ==
  IF ~ThresholdMetAggregated(agg.totalVotingPower, agg.validVotingPower, bps)
  THEN Returned(FALSE, <<>>, agg.totalVotingPower, agg.validVotingPower,
                "Threshold not met")
  ELSE Returned(TRUE, ValidSignaturesAggregated(agg), agg.totalVotingPower,
                agg.validVotingPower, "")

verifyProofDirect(vals, bps) ==
  LET total == TotalVotingPower(vals)
      validPower == ValidVotingPower(vals)
  IN IF TallyThrows(vals) THEN Threw
     ELSE IF total = 0
     THEN Returned(FALSE, <<>>, 0, 0, "No validator voting power")
     ELSE IF ~ThresholdMetDirect(total, validPower, bps)
     THEN Returned(FALSE, <<>>, total, validPower, "Threshold not met")
     ELSE Returned(TRUE, ValidSignaturesDirect(vals), total, validPower, "")

\* verifyProof taking the last aggregated response instead of the first
verifyProofLastAggregated(results, bps) ==
  LET vals == Validations(results)
      aggs == {k \in 1..Len(vals) : vals[k].kind = "agg"}
  IN IF aggs # {}
     THEN verifyProofAggregated(vals[CHOOSE k \in aggs : \A j \in aggs : j <= k], bps)
     ELSE verifyProofDirect(vals, bps)

\* the part of verifyProof after await Promise.allSettled(requests)
verifyProof(results, bps) ==
  LET vals == Validations(results)
      a == FindAggregated(vals, 1)
  IN IF a # 0 THEN verifyProofAggregated(vals[a], bps)
     ELSE verifyProofDirect(vals, bps)

\* the values of the settled promises, in the order of this.validators
Results == [i \in 1..validators |-> req[i].value]

AnySettled == \E i \in 1..validators : req[i].st = "settled"

\* Promise.allSettled(requests) resolves when every request has settled
AllSettled == \A i \in 1..validators : req[i].st = "settled"

\* requests = this.validators.map(url => this.requestValidation(url, ...)):
\* every request is issued before the first await
Broadcast(args) ==
  /\ vnPc = "idle"
  /\ vnPc' = "collecting"
  /\ vnArgs' = args
  /\ req' = [i \in 1..MaxValidators |->
               IF i <= validators
               THEN [st |-> "inflight", attempt |-> 1, value |-> NullResp]
               ELSE IdleReq]
  /\ vnResult' = NoResult
  /\ UNCHANGED <<validators, thresholdBps>>

\* requestValidation: axios.post resolved, return response.data
\* (a 2xx answer with an empty body is a falsy value, filtered like null);
\* the loop counter is dead once the function has returned
AttemptReturns(i) ==
  /\ vnPc = "collecting"
  /\ req[i].st = "inflight"
  /\ \E body \in Bodies(i) \cup {NullResp} :
       req' = [req EXCEPT ![i] = [st |-> "settled", attempt |-> 0,
                                  value |-> body]]
  /\ UNCHANGED <<validators, thresholdBps, vnPc, vnArgs, vnResult>>

\* requestValidation: axios.post rejected (timeout, network or HTTP error);
\* wait and retry while attempt < maxRetries, otherwise return null
AttemptFails(i) ==
  /\ vnPc = "collecting"
  /\ req[i].st = "inflight"
  /\ req' = [req EXCEPT ![i] =
               IF @.attempt < MaxRetries
               THEN [st |-> "backoff", attempt |-> @.attempt, value |-> NullResp]
               ELSE [st |-> "settled", attempt |-> @.attempt, value |-> NullResp]]
  /\ UNCHANGED <<validators, thresholdBps, vnPc, vnArgs, vnResult>>

\* requestValidation: the retry delay elapsed, next attempt
BackoffElapses(i) ==
  /\ vnPc = "collecting"
  /\ req[i].st = "backoff"
  /\ req' = [req EXCEPT ![i] = [st |-> "inflight", attempt |-> @.attempt + 1,
                                value |-> NullResp]]
  /\ UNCHANGED <<validators, thresholdBps, vnPc, vnArgs, vnResult>>

\* verifyProof resumes after Promise.allSettled and computes its result
Aggregate ==
  /\ vnPc = "collecting"
  /\ AllSettled
  /\ vnPc' = "done"
  /\ vnResult' = verifyProof(Results, thresholdBps)
  /\ UNCHANGED <<validators, thresholdBps, vnArgs, req>>

\* the caller takes the result; the call's promises are dropped
ResetCall ==
  /\ vnPc' = "idle"
  /\ vnArgs' = "none"
  /\ req' = [i \in 1..MaxValidators |-> IdleReq]
  /\ vnResult' = NoResult
  /\ UNCHANGED <<validators, thresholdBps>>

NoHttpResponse == [status |-> 0, error |-> <<>>]

VNInit(maxN) ==
  /\ validators \in 0..maxN
  /\ thresholdBps \in ThresholdChoices
  /\ vnPc = "idle"
  /\ vnArgs = "none"
  /\ req = [i \in 1..MaxValidators |-> IdleReq]
  /\ vnResult = NoResult

PipeIdle ==
  /\ bypass = FALSE
  /\ pipePc = "idle"
  /\ pipeKind = "none"
  /\ validationResult = NoResult
  /\ attested = "none"
  /\ onchain = <<>>
  /\ httpResponse = NoHttpResponse

\* no timed requestValidation call is under observation
RetryIdle ==
  /\ rvCfg = [timeout |-> DefaultTimeoutMs, maxRetries |-> MaxRetries,
              retryBaseMs |-> DefaultRetryBaseMs]
  /\ rvPc = "idle"
  /\ rvAttempt = 0
  /\ rvNow = 0
  /\ rvLog = <<>>
  /\ rvValue = NullResp

\* an address string: the account and whether it is written in mixed
\* (checksum) case or in lower case
Users == 1..MaxUsers
AddressStrings == [account : Users, checksum : BOOLEAN]

\* intentSchema: the fields of an intent the handlers look at
IntentPayloads == [userAddress : AddressStrings, deadline : {IntentDeadline}]

NoIntent == [userAddress |-> [account |-> 0, checksum |-> FALSE], deadline |-> 0]
NoSig == [wellFormed |-> FALSE, signer |-> 0, over |-> NoIntent]
NoRequest ==
  [kind |-> "none", intentId |-> 0, intent |-> NoIntent, intentSig |-> NoSig, at |-> 0]

\* no receipt is stored under an intentId
NoReceipt == [txHash |-> "none", timestamp |-> 0]

\* no /swap or /withdraw request is being handled, nothing is stored
HandlerIdle ==
  /\ dryRun = FALSE
  /\ now = 0
  /\ intents = <<>>
  /\ receipts = [k \in 1..MaxIntents |-> NoReceipt]
  /\ hPc = "idle"
  /\ hReq = NoRequest
  /\ hReceipt = FALSE

\* ----------------------------------------------------------- Merkle values
\* A field element is a leaf value <<v>> (the zero leaf is <<0>>) or the hash
\* <<a, b>> of two field elements: mimc7 is taken to be collision-free.
Leaf(v) == <<v>>
mimc7(a, b) == <<a, b>>
Undefined == <<>>
LeafValues == {1, 2}

\* a 0x-prefixed, 64-digit hex string and the value it denotes
HexString(v) == [hex |-> v]
\* a decimal string and the integer it denotes
DecString(v) == [dec |-> v]
toBigInt(str) == IF "hex" \in DOMAIN str THEN str.hex ELSE str.dec
toBigIntString(value) == DecString(toBigInt(value))
BigInt(value) == toBigInt(value)

Levels == 0..(TreeDepth - 1)
TreeCapacity == 2 ^ TreeDepth

\* zeros[0] = 0n; zeros[i] = mimc7(zeros[i-1], zeros[i-1]) for i < depth
RECURSIVE ZeroAt(_)
ZeroAt(i) == IF i = 0 THEN Leaf(0) ELSE mimc7(ZeroAt(i - 1), ZeroAt(i - 1))
zeros == [i \in Levels |-> ZeroAt(i)]

NoTree ==
  [threw |-> FALSE, root |-> Undefined,
   filledSubtrees |-> [i \in Levels |-> Undefined],
   nodeValues |-> [x \in {} |-> Undefined]]
NoPath == [threw |-> FALSE, path |-> <<>>, indices |-> <<>>, root |-> HexString(Undefined)]
NoPathCall == [called |-> FALSE, targetIndex |-> 0, out |-> NoPath]
NoTreeCall == [called |-> FALSE, out |-> NoTree]

\* the ledger before its first insertion
LedgerEmpty ==
  /\ lgCommitments = <<>>
  /\ lgFilled = [i \in Levels |-> Undefined]
  /\ lgRoot = ZeroAt(TreeDepth - 1)

\* no tree function has been applied
TreeIdle ==
  /\ commitments = <<>>
  /\ tRebuilt = NoTreeCall
  /\ tPath = NoPathCall
  /\ tRecombined = Undefined

NoMerkleResponse == [status |-> "none", out |-> NoPath]

\* no Merkle path look-up is running
SyncIdle ==
  /\ mOp = "none"
  /\ mPc = "idle"
  /\ mTarget = HexString(Undefined)
  /\ mOnChainRoot = HexString(Undefined)
  /\ mSynced = <<>>
  /\ mResponse = NoMerkleResponse

\* generateSwapProof has not been called
NoSwapData == [absent |-> TRUE]
NoCircuitInputs == [absent |-> TRUE, why |-> "none"]
ProofIdle ==
  /\ devBypassProofs = FALSE
  /\ swapData = NoSwapData
  /\ gPc = "idle"
  /\ circuitInputs = NoCircuitInputs
  /\ proverInputs = NoCircuitInputs
  /\ debugArtifact = NoCircuitInputs
  /\ gLog = {}

\* proveWithRapidsnarkOrSnarkjs has not been called
NoProverEnv ==
  [rapidsnarkPath |-> FALSE, binary |-> FALSE, wasm |-> FALSE, zkey |-> FALSE,
   genWitness |-> FALSE, zkKitProve |-> FALSE, circuitType |-> "joinsplit"]
BackendIdle ==
  /\ bkEnv = NoProverEnv
  /\ bkPc = "idle"
  /\ bkFiles = {}
  /\ bkMade = {}
  /\ bkTried = <<>>
  /\ bkResult = "none"

\* no settlement data is under observation
NoPublicInputs == [absent |-> TRUE]
SettleIdle ==
  /\ sPc = "idle"
  /\ sKind = "none"
  /\ sPi = NoPublicInputs
  /\ sSignals = NoPublicInputs
  /\ sMerkle = NoPublicInputs
  /\ sTuple = NoPublicInputs

\* a value that is not an array (undefined, a string): no index of an array
NotArray == [i \in {0} |-> 0]

\* no Merkle arrays are under observation
NoFormatted == [fn |-> "none", merklePath |-> <<>>, merklePathIndices |-> <<>>]
MerkleFmtIdle ==
  /\ mfPath = NotArray
  /\ mfIndices = NotArray
  /\ mfOut = NoFormatted

\* the validator client is not running
ClientIdle ==
  /\ cSocks = <<>>
  /\ cTimers = <<>>
  /\ cSinceClose = 0
  /\ cFaults = 0

MoreIdle == SettleIdle /\ MerkleFmtIdle /\ ClientIdle

ExtIdle ==
  /\ RetryIdle /\ HandlerIdle /\ LedgerEmpty /\ TreeIdle /\ SyncIdle /\ ProofIdle
  /\ BackendIdle /\ MoreIdle

\* ------------------------------------------------- validator coordinator
Addresses == 1..MaxStakers
Conns == 1..MaxConns
VerifyIds == 1..MaxVerify
\* the POST /verify requests that may be in flight at once
VerifySlots == 1..MaxFanout

NewConn == [st |-> "unopened", address |-> 0]
NoVerifyResponse ==
  [status |-> 0, valid |-> FALSE, signatures |-> <<>>,
   totalVotingPower |-> 0, validVotingPower |-> 0, stakerCount |-> 0]
IdleVerify ==
  [st |-> "idle", requestId |-> 0, connected |-> <<>>, results |-> <<>>,
   response |-> NoVerifyResponse]
PendingResult ==
  [status |-> "pending", requestId |-> 0, valid |-> FALSE, signature |-> "none"]

CoordIdle ==
  /\ conn = [c \in Conns |-> NewConn]
  /\ lookups = {}
  /\ stakers = <<>>
  /\ vreq = [r \in VerifySlots |-> IdleVerify]

\* stakers.has(addr): position of the entry in the Map, 0 if absent
RECURSIVE StakerIndex(_, _, _)
StakerIndex(map, addr, i) ==
  IF i > Len(map) THEN 0
  ELSE IF map[i].addr = addr THEN i
  ELSE StakerIndex(map, addr, i + 1)

\* stakers.set(address, { ws, votingPower }): a known key keeps its position
StakersSet(map, addr, ws, power) ==
  LET e == [addr |-> addr, ws |-> ws, votingPower |-> power]
      i == StakerIndex(map, addr, 1)
  IN IF i = 0 THEN Append(map, e) ELSE [map EXCEPT ![i] = e]

\* stakers.delete(address)
StakersDelete(map, addr) == SelectSeq(map, LAMBDA e : e.addr # addr)

\* stakers.get(addr)?.votingPower ?? 0n
StakerPower(map, addr) ==
  LET i == StakerIndex(map, addr, 1)
  IN IF i = 0 THEN 0 ELSE map[i].votingPower

\* wss.on("connection"); sockets are numbered in the order they connect
Connect(c) ==
  /\ conn[c].st = "unopened"
  /\ \A d \in Conns : d < c => conn[d].st # "unopened"
  /\ conn' = [conn EXCEPT ![c].st = "open"]
  /\ UNCHANGED <<lookups, stakers, vreq>>

\* ws.on("message"), msg.type === "register": address = getAddress(msg.address),
\* then the handler awaits getVotingPower(address)
Register(c, a, pending) ==
  /\ conn[c].st = "open"
  /\ <<c, a>> \notin lookups
  /\ Cardinality(lookups) < pending
  /\ conn' = [conn EXCEPT ![c].address = a]
  /\ lookups' = lookups \cup {<<c, a>>}
  /\ UNCHANGED <<stakers, vreq>>

RegisterMessage(c, a) == Register(c, a, MaxLookups)

\* the staking contract's stakedBalance(address), in tokens: address 1 holds
\* exactly the minimum stake, each further address one minimum more
stakedBalance(a) == a * MinStake

\* getVotingPower: stakedBalance(address), or 0n when the RPC call fails
getVotingPower(a) == {stakedBalance(a), 0}

\* the register handler resumes after await getVotingPower: below the minimum
\* it sends error and calls ws.close(); otherwise stakers.set(address, ...)
\* with the connection's current `address` and sends registered
LookupReturns(c, a) ==
  /\ <<c, a>> \in lookups
  /\ lookups' = lookups \ {<<c, a>>}
  /\ \E power \in getVotingPower(a) :
       IF power < MinStake
       THEN /\ conn' = [conn EXCEPT ![c].st =
                          IF @ = "open" THEN "closing" ELSE @]
            /\ UNCHANGED stakers
       ELSE /\ stakers' = StakersSet(stakers, conn[c].address, c, power)
            /\ UNCHANGED conn
  /\ UNCHANGED vreq

\* ws.on("close"): if (address) stakers.delete(address)
Close(c) ==
  /\ conn[c].st \in {"open", "closing"}
  /\ conn' = [conn EXCEPT ![c].st = "closed"]
  /\ stakers' = IF conn[c].address # 0
                THEN StakersDelete(stakers, conn[c].address)
                ELSE stakers
  /\ UNCHANGED <<lookups, vreq>>

\* const requestId = Date.now().toString(36) + Math.random()...: an id no
\* other request has
FreshRequestId ==
  CHOOSE q \in VerifySlots :
    /\ \A r \in VerifySlots : vreq[r].requestId # q
    /\ \A p \in VerifySlots : (\A r \in VerifySlots : vreq[r].requestId # p) => q <= p

\* POST /verify up to the await: 503 when no staker is connected, otherwise
\* one promise per entry of the snapshot, a handler and the payload sent on
\* each entry's socket
Verify(r) ==
  /\ vreq[r].st = "idle"
  /\ vreq' = [vreq EXCEPT ![r] =
       IF Len(stakers) = 0
       THEN [st |-> "done", requestId |-> 0, connected |-> <<>>, results |-> <<>>,
             response |-> [NoVerifyResponse EXCEPT !.status = 503]]
       ELSE [st |-> "waiting",
             requestId |-> FreshRequestId,
             connected |-> [k \in 1..Len(stakers) |->
                              [addr |-> stakers[k].addr, ws |-> stakers[k].ws]],
             results |-> [k \in 1..Len(stakers) |-> PendingResult],
             response |-> NoVerifyResponse]]
  /\ UNCHANGED <<conn, lookups, stakers>>

RequestIdMatchesAlways(msg, requestId) == TRUE

\* if (msg.requestId === requestId)
RequestIdMatches(msg, requestId) == msg.requestId = requestId

\* a message {requestId, valid, signature, timestamp} arrives on socket c:
\* every handler listening on that socket parses it, and the handlers of the
\* request whose requestId it carries resolve with it
Deliver(c, msg) ==
  vreq' = [r \in VerifySlots |->
    IF vreq[r].st = "waiting" /\ RequestIdMatches(msg, vreq[r].requestId)
    THEN [vreq[r] EXCEPT !.results =
            [k \in 1..Len(@) |->
               IF vreq[r].connected[k].ws = c /\ @[k].status = "pending"
               THEN [status |-> "fulfilled", requestId |-> msg.requestId,
                     valid |-> msg.valid, signature |-> msg.signature]
               ELSE @[k]]]
    ELSE vreq[r]]

\* a staker answers request r on socket c
Reply(r, c, valid, signature) ==
  /\ vreq[r].st = "waiting"
  /\ conn[c].st \in {"open", "closing"}
  /\ \E k \in 1..Len(vreq[r].connected) :
       vreq[r].connected[k].ws = c /\ vreq[r].results[k].status = "pending"
  /\ Deliver(c, [requestId |-> vreq[r].requestId, valid |-> valid,
                 signature |-> signature])
  /\ UNCHANGED <<conn, lookups, stakers>>

\* setTimeout(() => reject(new Error("timeout")), 15000)
Timeout(r, k) ==
  /\ vreq[r].st = "waiting"
  /\ k \in 1..Len(vreq[r].results)
  /\ vreq[r].results[k].status = "pending"
  /\ vreq' = [vreq EXCEPT ![r].results[k].status = "rejected"]
  /\ UNCHANGED <<conn, lookups, stakers>>

\* the tally loop of POST /verify over results[0..n-1]
RECURSIVE Tally(_, _, _, _)
Tally(connected, results, map, k) ==
  IF k > Len(results)
  THEN [total |-> 0, valid |-> 0, signatures |-> <<>>]
  ELSE LET rest == Tally(connected, results, map, k + 1)
           power == StakerPower(map, connected[k].addr)
           counts == results[k].status = "fulfilled" /\ results[k].valid
       IN [total |-> power + rest.total,
           valid |-> (IF counts THEN power ELSE 0) + rest.valid,
           signatures |->
             IF counts
             THEN <<SigEntry(connected[k].addr, power, results[k].signature)>>
                    \o rest.signatures
             ELSE rest.signatures]

\* POST /verify after await Promise.allSettled: tally and res.json
Respond(r) ==
  /\ vreq[r].st = "waiting"
  /\ \A k \in 1..Len(vreq[r].results) : vreq[r].results[k].status # "pending"
  /\ LET t == Tally(vreq[r].connected, vreq[r].results, stakers, 1)
     IN vreq' = [vreq EXCEPT ![r].st = "done", ![r].response =
          [status |-> 200,
           valid |-> (t.total > 0 /\ t.valid * 10000 >= t.total * THRESHOLD_BPS),
           signatures |-> t.signatures,
           totalVotingPower |-> t.total,
           validVotingPower |-> t.valid,
           stakerCount |-> Len(vreq[r].connected)]]
  /\ UNCHANGED <<conn, lookups, stakers>>

\* the HTTP exchange is over; the next POST /verify may come
VerifyDone(r) ==
  /\ vreq[r].st = "done"
  /\ vreq' = [vreq EXCEPT ![r] = IdleVerify]
  /\ UNCHANGED <<conn, lookups, stakers>>

\* the answers of a staker: signed valid, signed invalid, valid without a
\* signature
Replies ==
  {[valid |-> TRUE, signature |-> "sig"], [valid |-> FALSE, signature |-> "sig"],
   [valid |-> TRUE, signature |-> "none"]}

InitCoord ==
  /\ VNInit(0) /\ thresholdBps = DefaultThresholdBps
  /\ PipeIdle
  /\ ExtIdle
  /\ conn = [c \in Conns |-> NewConn]
  /\ lookups = {}
  /\ stakers = <<>>
  /\ vreq = [r \in VerifySlots |-> IdleVerify]

CoordConnect == \E c \in Conns : Connect(c) /\ UNCHANGED <<vnVars, pipeVars, extVars>>
CoordRegister ==
  \E c \in Conns, a \in Addresses : RegisterMessage(c, a) /\ UNCHANGED <<vnVars, pipeVars, extVars>>
CoordLookup ==
  \E c \in Conns, a \in Addresses : LookupReturns(c, a) /\ UNCHANGED <<vnVars, pipeVars, extVars>>
CoordClose == \E c \in Conns : Close(c) /\ UNCHANGED <<vnVars, pipeVars, extVars>>
CoordVerify == \E r \in VerifyIds : Verify(r) /\ UNCHANGED <<vnVars, pipeVars, extVars>>
CoordReply ==
  \E r \in VerifyIds, c \in Conns, reply \in Replies :
    Reply(r, c, reply.valid, reply.signature) /\ UNCHANGED <<vnVars, pipeVars, extVars>>
CoordTimeout ==
  \E r \in VerifyIds, k \in 1..MaxStakers : Timeout(r, k) /\ UNCHANGED <<vnVars, pipeVars, extVars>>
CoordRespond == \E r \in VerifyIds : Respond(r) /\ UNCHANGED <<vnVars, pipeVars, extVars>>
CoordVerifyDone == \E r \in VerifyIds : VerifyDone(r) /\ UNCHANGED <<vnVars, pipeVars, extVars>>

NextCoord ==
  \/ CoordConnect \/ CoordRegister \/ CoordLookup \/ CoordClose
  \/ CoordVerify \/ CoordReply \/ CoordTimeout \/ CoordRespond \/ CoordVerifyDone

SpecCoord == InitCoord /\ [][NextCoord]_vars

\* the registry on its own, with no /verify request: several register
\* messages may await their stake look-up at once
RegistryConnect == CoordConnect
RegistryRegister ==
  \E c \in Conns, a \in Addresses :
    Register(c, a, MaxRegistryLookups) /\ UNCHANGED <<vnVars, pipeVars, extVars>>
RegistryLookup == CoordLookup
RegistryClose == CoordClose

NextRegistry == RegistryConnect \/ RegistryRegister \/ RegistryLookup \/ RegistryClose

SpecRegistry == InitCoord /\ [][NextRegistry]_vars

\* ------------------------ coordinator: several POST /verify requests at once
\* the stakers 1..n are registered, each on its own socket (one or two of
\* them here)
RegisteredStakers(n) ==
  [k \in 1..n |-> [addr |-> k, ws |-> k, votingPower |-> stakedBalance(k)]]

\* the messages a staker may send: a signed reply with any requestId, also
\* one that no request has
Messages ==
  {[requestId |-> q, valid |-> valid, signature |-> "sig"] :
     q \in 0..MaxFanout, valid \in BOOLEAN}

\* ws.on("message", handler) of every pending promise on socket c runs
MessageArrives(c, msg) ==
  /\ conn[c].st = "open"
  /\ Deliver(c, msg)
  /\ UNCHANGED <<conn, lookups, stakers>>

InitFanout ==
  /\ VNInit(0) /\ thresholdBps = DefaultThresholdBps
  /\ PipeIdle
  /\ ExtIdle
  /\ \E n \in 1..2 :
       /\ n <= MaxStakers /\ n <= MaxConns
       /\ conn = [c \in Conns |->
                    IF c <= n THEN [st |-> "open", address |-> c] ELSE NewConn]
       /\ stakers = RegisteredStakers(n)
  /\ lookups = {}
  /\ vreq = [r \in VerifySlots |-> IdleVerify]

FanoutFrame == UNCHANGED <<vnVars, pipeVars, extVars>>
FanoutVerify == \E r \in VerifySlots : Verify(r) /\ FanoutFrame
FanoutMessage == \E c \in Conns, msg \in Messages : MessageArrives(c, msg) /\ FanoutFrame
FanoutTimeout == \E r \in VerifySlots, k \in 1..MaxStakers : Timeout(r, k) /\ FanoutFrame
FanoutRespond == \E r \in VerifySlots : Respond(r) /\ FanoutFrame
FanoutVerifyDone == \E r \in VerifySlots : VerifyDone(r) /\ FanoutFrame

NextFanout ==
  \/ FanoutVerify
  \/ FanoutMessage
  \/ FanoutTimeout
  \/ FanoutRespond
  \/ FanoutVerifyDone

SpecFanout == InitFanout /\ [][NextFanout]_vars

\* ---------------------------------------------------------------- SpecVN
\* verifyProof called on its own, with the relayer's pipeline at rest
VerifyProofCall == Broadcast("proof") /\ UNCHANGED <<pipeVars, coordVars, extVars>>
VerifyProofSettle ==
  \E i \in 1..MaxValidators :
    /\ AttemptReturns(i) \/ AttemptFails(i) \/ BackoffElapses(i)
    /\ UNCHANGED <<pipeVars, coordVars, extVars>>
VerifyProofAggregate == Aggregate /\ UNCHANGED <<pipeVars, coordVars, extVars>>
VerifyProofReturn == vnPc = "done" /\ ResetCall /\ UNCHANGED <<pipeVars, coordVars, extVars>>

InitVN == VNInit(MaxValidators) /\ PipeIdle /\ CoordIdle /\ ExtIdle
NextVN == VerifyProofCall \/ VerifyProofSettle \/ VerifyProofAggregate \/ VerifyProofReturn
SpecVN == InitVN /\ [][NextVN]_vars

\* ----------------------------------------------------------- SpecEndpoints
\* verifyProof with this.validators listing several endpoints of one validator:
\* requestValidation returns response.data as received, and the address in it
\* is that of the validator that answered, whichever URL reached it
EndpointReturns(i) ==
  /\ vnPc = "collecting"
  /\ req[i].st = "inflight"
  /\ \E v \in 1..i :
       \E body \in Bodies(v) \cup {NullResp} :
         req' = [req EXCEPT ![i] = [st |-> "settled", attempt |-> 0,
                                    value |-> body]]
  /\ UNCHANGED <<validators, thresholdBps, vnPc, vnArgs, vnResult>>

EndpointSettle ==
  \E i \in 1..MaxValidators :
    /\ EndpointReturns(i) \/ AttemptFails(i) \/ BackoffElapses(i)
    /\ UNCHANGED <<pipeVars, coordVars, extVars>>

NextEndpoints ==
  VerifyProofCall \/ EndpointSettle \/ VerifyProofAggregate \/ VerifyProofReturn
SpecEndpoints == InitVN /\ [][NextEndpoints]_vars

\* ------------------------------------------- submitSwap / submitWithdraw
\* swapData.proof, publicSignals (resp. withdrawData.proof, publicSignals)
ProofOf(kind) == <<kind, "proof+publicSignals">>

\* { valid: true, signatures: [], reason: "DEV_BYPASS_VALIDATORS" }
BypassResult == Returned(TRUE, <<>>, 0, 0, "DEV_BYPASS_VALIDATORS")

ConsensusAcceptedUnchecked(r) == TRUE

\* if (!validationResult.valid) throw ...: the request goes on only if valid
ConsensusAccepted(r) == r.valid

\* `Validator consensus failed: ${validationResult.reason || 'Threshold not met'}`
ConsensusFailedMessage(r) ==
  <<"Validator consensus failed",
    IF r.reason = "" THEN "Threshold not met" ELSE r.reason>>

\* res.status(500).json({ error: err.message })
ErrorResponse(msg) == [status |-> 500, error |-> msg]

\* submitSwap / submitWithdraw entered from the /swap resp. /withdraw handler:
\* STEP 1, the bypass result or the call of validatorNetwork.verifyProof
SubmitStart(kind) ==
  /\ pipePc \in {"idle", "confirmed", "failed"}
  /\ pipeKind' = kind
  /\ onchain' = <<>>
  /\ httpResponse' = NoHttpResponse
  /\ UNCHANGED <<bypass, coordVars, extVars>>
  /\ IF bypass
     THEN /\ validationResult' = BypassResult
          /\ attested' = "none"
          /\ pipePc' = "validated"
          /\ UNCHANGED vnVars
     ELSE /\ Broadcast(ProofOf(kind))
          /\ validationResult' = NoResult
          /\ attested' = "none"
          /\ pipePc' = "consensus"

submitSwap == SubmitStart("swap")
submitWithdraw == SubmitStart("withdraw")

\* await verifyProof(...) resumes: a throw of verifyProof propagates to the
\* handler's catch, a rejected result throws "Validator consensus failed"
ConsensusReturns ==
  /\ pipePc = "consensus"
  /\ vnPc = "done"
  /\ attested' = vnArgs
  /\ ResetCall
  /\ UNCHANGED <<bypass, pipeKind, onchain, coordVars, extVars>>
  /\ IF vnResult.outcome = "threw"
     THEN /\ validationResult' = vnResult
          /\ pipePc' = "failed"
          /\ httpResponse' = ErrorResponse(<<vnResult.reason>>)
     ELSE /\ validationResult' = vnResult
          /\ IF ConsensusAccepted(vnResult)
             THEN pipePc' = "validated" /\ UNCHANGED httpResponse
             ELSE /\ pipePc' = "failed"
                  /\ httpResponse' = ErrorResponse(ConsensusFailedMessage(vnResult))

\* submitSelfThresholdValidation (bypass) resp. submitThresholdValidations
\* (signatures.length > 0): returns without a call (verifier not set, no
\* usable signature, no voting power), or calls tv.submitValidations, whose
\* revert is not caught
SubmitValidations ==
  /\ pipePc = "validated"
  /\ UNCHANGED <<vnVars, bypass, pipeKind, validationResult, attested, coordVars, extVars>>
  /\ \E outcome \in {"skipped", "submitted", "reverted"} :
       /\ (~bypass /\ Len(validationResult.signatures) = 0) => outcome = "skipped"
       /\ onchain' = IF outcome = "skipped" THEN onchain
                     ELSE Append(onchain, "submitValidations")
       /\ IF outcome = "reverted"
          THEN pipePc' = "failed" /\ httpResponse' = ErrorResponse(<<"revert">>)
          ELSE pipePc' = "settling" /\ UNCHANGED httpResponse

\* contract.shieldedSwapJoinSplit(...) resp. contract.shieldedWithdraw(...),
\* then tx.wait()
Settle ==
  /\ pipePc = "settling"
  /\ UNCHANGED <<vnVars, bypass, pipeKind, validationResult, attested, coordVars, extVars>>
  /\ onchain' = Append(onchain, "settle")
  /\ \E ok \in BOOLEAN :
       IF ok
       THEN pipePc' = "confirmed" /\ httpResponse' = [status |-> 200, error |-> <<>>]
       ELSE pipePc' = "failed" /\ httpResponse' = ErrorResponse(<<"revert">>)

InitPipe ==
  /\ CoordIdle
  /\ ExtIdle
  /\ VNInit(MaxPipeValidators)
  /\ bypass \in BOOLEAN
  /\ pipePc = "idle"
  /\ pipeKind = "none"
  /\ validationResult = NoResult
  /\ attested = "none"
  /\ onchain = <<>>
  /\ httpResponse = NoHttpResponse

NextPipe ==
  \/ submitSwap
  \/ submitWithdraw
  \/ VerifyProofSettle
  \/ VerifyProofAggregate
  \/ ConsensusReturns
  \/ SubmitValidations
  \/ Settle

SpecPipe == InitPipe /\ [][NextPipe]_vars

\* -------- submitPortfolioSwap, submitPortfolioDeposit, submitPortfolioWithdraw
PortfolioKinds == {"portfolioSwap", "portfolioDeposit", "portfolioWithdraw"}

\* the checks a portfolio operation makes before its on-chain call: none in
\* submitPortfolioSwap; the on-chain commitment and nonce in
\* submitPortfolioDeposit; proof, publicInputs, recipient and owner present
\* in submitPortfolioWithdraw
PortfolioChecks(kind) == IF kind = "portfolioSwap" THEN {TRUE} ELSE BOOLEAN

\* a portfolio operation entered from its handler, up to its on-chain call
SubmitPortfolio(kind, passes) ==
  /\ pipePc \in {"idle", "confirmed", "failed"}
  /\ pipeKind' = kind
  /\ onchain' = <<>>
  /\ validationResult' = NoResult
  /\ attested' = "none"
  /\ IF passes
     THEN pipePc' = "settling" /\ httpResponse' = NoHttpResponse
     ELSE pipePc' = "failed" /\ httpResponse' = ErrorResponse(<<"rejected">>)
  /\ UNCHANGED <<vnVars, bypass, coordVars, extVars>>

submitPortfolio ==
  \E kind \in PortfolioKinds, passes \in BOOLEAN :
    passes \in PortfolioChecks(kind) /\ SubmitPortfolio(kind, passes)

NextPortfolio == NextPipe \/ submitPortfolio

SpecPortfolio == InitPipe /\ [][NextPortfolio]_vars

\* ------------------------------ ValidatorNetwork.requestValidation, timed
\* One requestValidation call to one endpoint, with the time it takes.  The
\* clock rvNow advances by the duration of every axios.post and by every
\* setTimeout delay; rvLog records both in order.
RECURSIVE Pow2(_)
Pow2(n) == IF n = 0 THEN 1 ELSE 2 * Pow2(n - 1)

TimeoutChoices == {DefaultTimeoutMs, 1000}
RetryChoices == 0..MaxAttempts
RetryBaseChoices == {DefaultRetryBaseMs, 300}

\* one axios.post: it answers, it is refused at once, or it runs into the
\* per-attempt timeout
PostOutcomes(cfg) ==
  {[outcome |-> "ok", took |-> 0], [outcome |-> "ok", took |-> cfg.timeout \div 2],
   [outcome |-> "error", took |-> 0], [outcome |-> "timeout", took |-> cfg.timeout]}

\* response.data of the endpoint under observation
ResponseData == VoteResp(1, TRUE, TRUE, 100)

PostEntry(attempt, o) ==
  [ev |-> "post", attempt |-> attempt, outcome |-> o.outcome, ms |-> o.took]
WaitEntry(attempt, delay) ==
  [ev |-> "wait", attempt |-> attempt, outcome |-> "elapsed", ms |-> delay]

RetryDelayLinear(cfg, attempt) == cfg.retryBaseMs * attempt

\* const delay = this.retryBaseMs * (2 ** (attempt - 1))
RetryDelay(cfg, attempt) == cfg.retryBaseMs * Pow2(attempt - 1)

WaitsAfterEveryAttempt(cfg, attempt) == attempt <= cfg.maxRetries

\* if (attempt < this.maxRetries)
WaitsAfter(cfg, attempt) == attempt < cfg.maxRetries

\* the call: attempt = 1; the loop body is entered if attempt <= maxRetries
requestValidation ==
  /\ rvPc = "idle"
  /\ rvAttempt' = 1
  /\ IF 1 <= rvCfg.maxRetries
     THEN rvPc' = "inflight" /\ rvValue' = rvValue
     ELSE rvPc' = "returned" /\ rvValue' = NullResp
  /\ UNCHANGED <<rvCfg, rvNow, rvLog>>

\* await axios.post(...) resolves: return response.data
PostReturns ==
  /\ rvPc = "inflight"
  /\ \E o \in {x \in PostOutcomes(rvCfg) : x.outcome = "ok"} :
       /\ rvLog' = Append(rvLog, PostEntry(rvAttempt, o))
       /\ rvNow' = rvNow + o.took
  /\ rvPc' = "returned"
  /\ rvValue' = ResponseData
  /\ UNCHANGED <<rvCfg, rvAttempt>>

\* await axios.post(...) rejects: the catch block, then either the delay is
\* started or the loop ends and null is returned
PostFails ==
  /\ rvPc = "inflight"
  /\ \E o \in {x \in PostOutcomes(rvCfg) : x.outcome # "ok"} :
       /\ rvLog' = Append(rvLog, PostEntry(rvAttempt, o))
       /\ rvNow' = rvNow + o.took
  /\ IF WaitsAfter(rvCfg, rvAttempt)
     THEN rvPc' = "backoff" /\ UNCHANGED <<rvAttempt, rvValue>>
     ELSE rvPc' = "returned" /\ rvAttempt' = rvAttempt + 1 /\ rvValue' = NullResp
  /\ UNCHANGED rvCfg

\* the setTimeout of the catch block fires: attempt++ and the next post
DelayElapses ==
  /\ rvPc = "backoff"
  /\ LET delay == RetryDelay(rvCfg, rvAttempt)
     IN /\ rvLog' = Append(rvLog, WaitEntry(rvAttempt, delay))
        /\ rvNow' = rvNow + delay
  /\ rvAttempt' = rvAttempt + 1
  /\ IF rvAttempt + 1 <= rvCfg.maxRetries
     THEN rvPc' = "inflight" /\ UNCHANGED rvValue
     ELSE rvPc' = "returned" /\ rvValue' = NullResp
  /\ UNCHANGED rvCfg

InitRetry ==
  /\ VNInit(0) /\ thresholdBps = DefaultThresholdBps
  /\ PipeIdle
  /\ CoordIdle
  /\ rvCfg \in [timeout : TimeoutChoices, maxRetries : RetryChoices,
                retryBaseMs : RetryBaseChoices]
  /\ rvPc = "idle"
  /\ rvAttempt = 0
  /\ rvNow = 0
  /\ rvLog = <<>>
  /\ rvValue = NullResp
  /\ HandlerIdle
  /\ LedgerEmpty
  /\ TreeIdle
  /\ SyncIdle
  /\ ProofIdle
  /\ BackendIdle
  /\ MoreIdle

RetryFrame ==
  UNCHANGED <<vnVars, pipeVars, coordVars, handlerVars, ledgerVars, treeVars, syncVars,
              proofVars, backendVars, moreVars>>
RetryCall == requestValidation /\ RetryFrame
RetryPostReturns == PostReturns /\ RetryFrame
RetryPostFails == PostFails /\ RetryFrame
RetryDelayElapses == DelayElapses /\ RetryFrame

NextRetry == RetryCall \/ RetryPostReturns \/ RetryPostFails \/ RetryDelayElapses
SpecRetry == InitRetry /\ [][NextRetry]_vars

\* --------------------------------- POST /intent, POST /swap, POST /withdraw
IntentIds == 1..MaxIntents

\* String.prototype.toLowerCase on an address string
toLowerCase(addr) == [addr EXCEPT !.checksum = FALSE]

\* the address a recovery yields when the signature was made over other data:
\* an account nobody holds
StrangerAddress == [account |-> MaxUsers + 1, checksum |-> TRUE]

\* ethers.verifyTypedData(INTENT_DOMAIN, INTENT_TYPES, intent, intentSig):
\* the checksummed address whose key signed, if the signature is over this
\* intent (a malformed signature makes it throw, see PostSwap)
verifyTypedData(intent, sig) ==
  IF sig.over = intent THEN [account |-> sig.signer, checksum |-> TRUE]
  ELSE StrangerAddress

SignerMatchesAlways(intent, sig) == TRUE

\* signerAddr.toLowerCase() === intent.userAddress.toLowerCase()
SignerMatches(intent, sig) ==
  toLowerCase(verifyTypedData(intent, sig)) = toLowerCase(intent.userAddress)

\* intents.get(intentId) || getIntent(db, intentId)?.payload is truthy
IntentKnown(map, intentId) == intentId \in 1..Len(map)

\* the intentSig values a /swap body may carry for a submitted intent
Signatures(intent) ==
  {[wellFormed |-> TRUE, signer |-> u, over |-> i] :
     u \in Users, i \in {intent, [intent EXCEPT !.deadline = @ + 1]}}
    \cup {NoSig}

SwapRequests ==
  {[kind |-> "swap", intentId |-> id, intent |-> i, intentSig |-> g, at |-> now] :
     id \in 1..(MaxIntents + 1), i \in IntentPayloads, g \in UNION {Signatures(j) : j \in IntentPayloads}}

StatusResponse(status, msg) == [status |-> status, error |-> msg]

\* the clock advances
Tick ==
  /\ now < MaxTime
  /\ now' = now + 1
  /\ UNCHANGED <<dryRun, intents, receipts, hPc, hReq, hReceipt>>

\* app.post("/intent"): the payload is stored under a fresh intentId
PostIntent(payload) ==
  /\ Len(intents) < MaxIntents
  /\ intents' = Append(intents, payload)
  /\ UNCHANGED <<dryRun, now, receipts, hPc, hReq, hReceipt>>

\* app.post("/swap") up to the signature check: 404 for an intentId that is
\* not stored, 400 when the recovered signer is not intent.userAddress; a
\* malformed signature makes verifyTypedData throw, which nothing catches
PostSwap(r) ==
  /\ hPc = "idle"
  /\ hReq' = r
  /\ hReceipt' = FALSE
  /\ IF ~IntentKnown(intents, r.intentId)
     THEN hPc' = "answered" /\ httpResponse' = StatusResponse(404, <<"Unknown intentId">>)
     ELSE IF ~r.intentSig.wellFormed
     THEN hPc' = "hung" /\ httpResponse' = NoHttpResponse
     ELSE IF ~SignerMatches(r.intent, r.intentSig)
     THEN hPc' = "answered" /\ httpResponse' = StatusResponse(400, <<"Invalid intent signature">>)
     ELSE hPc' = "accepted" /\ httpResponse' = NoHttpResponse
  /\ UNCHANGED <<dryRun, now, intents, receipts>>
  /\ UNCHANGED <<vnVars, bypass, pipePc, pipeKind, validationResult, attested, onchain>>

\* app.post("/withdraw") up to the try block: the body names no intent
PostWithdraw ==
  /\ hPc = "idle"
  /\ hReq' = [NoRequest EXCEPT !.kind = "withdraw", !.at = now]
  /\ hReceipt' = FALSE
  /\ hPc' = "accepted"
  /\ httpResponse' = NoHttpResponse
  /\ UNCHANGED <<dryRun, now, intents, receipts>>
  /\ UNCHANGED <<vnVars, bypass, pipePc, pipeKind, validationResult, attested, onchain>>

\* buildReceipt(intentId, swapData, txResult): of its fields the transaction
\* hash and timestamp: Math.floor(Date.now() / 1000). receipts.set(intentId,
\* receipt) and saveReceipt (INSERT OR REPLACE INTO receipts) store it under
\* the intentId in the Map and in the table alike, so `receipts` stands for
\* both
buildReceipt(txHash, at) == [txHash |-> txHash, timestamp |-> at]

\* RELAYER_DRY_RUN: await simulateSwap(...), then the receipt (for /swap) and
\* the answer
SimulateSwap ==
  /\ hPc = "accepted" /\ pipePc = "idle" /\ dryRun
  /\ IF hReq.kind = "swap"
     THEN receipts' = [receipts EXCEPT ![hReq.intentId] = buildReceipt("simulated", now)] /\ hReceipt' = TRUE
     ELSE UNCHANGED <<receipts, hReceipt>>
  /\ hPc' = "answered"
  /\ httpResponse' = StatusResponse(200, <<>>)
  /\ UNCHANGED <<dryRun, now, intents, hReq>>
  /\ UNCHANGED <<vnVars, bypass, pipePc, pipeKind, validationResult, attested, onchain>>

\* await submitSwap(swapData) resp. await submitWithdraw(withdrawData) is
\* entered
HandlerSubmits ==
  /\ hPc = "accepted" /\ pipePc = "idle" /\ ~dryRun
  /\ SubmitStart(hReq.kind)

\* submitSwap / submitWithdraw returned or threw: /swap stores the receipt
\* of a settled swap; the answer has been given
HandlerReturns ==
  /\ hPc = "accepted" /\ pipePc \in {"confirmed", "failed"}
  /\ IF hReq.kind = "swap" /\ pipePc = "confirmed"
     THEN receipts' = [receipts EXCEPT ![hReq.intentId] = buildReceipt("tx", now)] /\ hReceipt' = TRUE
     ELSE UNCHANGED <<receipts, hReceipt>>
  /\ hPc' = "answered"
  /\ UNCHANGED <<dryRun, now, intents, hReq>>
  /\ UNCHANGED <<vnVars, pipeVars>>

\* the handler is over: its locals are gone
HandlerDone ==
  /\ hPc \in {"answered", "hung"}
  /\ hPc' = "idle"
  /\ hReq' = NoRequest
  /\ hReceipt' = FALSE
  /\ pipePc' = "idle"
  /\ pipeKind' = "none"
  /\ validationResult' = NoResult
  /\ attested' = "none"
  /\ onchain' = <<>>
  /\ httpResponse' = NoHttpResponse
  /\ UNCHANGED <<dryRun, now, intents, receipts>>
  /\ UNCHANGED <<vnVars, bypass>>

InitHandlers ==
  /\ VNInit(MaxHandlerValidators) /\ thresholdBps = DefaultThresholdBps
  /\ CoordIdle
  /\ RetryIdle
  /\ bypass \in BOOLEAN
  /\ pipePc = "idle"
  /\ pipeKind = "none"
  /\ validationResult = NoResult
  /\ attested = "none"
  /\ onchain = <<>>
  /\ httpResponse = NoHttpResponse
  /\ dryRun \in BOOLEAN
  /\ now = 0
  /\ intents = <<>>
  /\ receipts = [k \in 1..MaxIntents |-> NoReceipt]
  /\ hPc = "idle"
  /\ hReq = NoRequest
  /\ hReceipt = FALSE
  /\ LedgerEmpty
  /\ TreeIdle
  /\ SyncIdle
  /\ ProofIdle
  /\ BackendIdle
  /\ MoreIdle

HandlerFrame ==
  UNCHANGED <<coordVars, retryVars, ledgerVars, treeVars, syncVars, proofVars, backendVars, moreVars>>
HandlerTick == Tick /\ UNCHANGED <<vnVars, pipeVars>> /\ HandlerFrame
HandlerPostIntent ==
  \E payload \in IntentPayloads :
    PostIntent(payload) /\ UNCHANGED <<vnVars, pipeVars>> /\ HandlerFrame
HandlerPostSwap == \E r \in SwapRequests : PostSwap(r) /\ HandlerFrame
HandlerPostWithdraw == PostWithdraw /\ HandlerFrame
HandlerSimulateSwap == SimulateSwap /\ HandlerFrame
HandlerReturn == HandlerReturns /\ HandlerFrame
HandlerEnd == HandlerDone /\ HandlerFrame

NextHandlers ==
  \/ HandlerTick
  \/ HandlerPostIntent
  \/ HandlerPostSwap
  \/ HandlerPostWithdraw
  \/ HandlerSimulateSwap
  \/ HandlerSubmits
  \/ VerifyProofSettle
  \/ VerifyProofAggregate
  \/ ConsensusReturns
  \/ SubmitValidations
  \/ Settle
  \/ HandlerReturn
  \/ HandlerEnd

SpecHandlers == InitHandlers /\ [][NextHandlers]_vars

\* ------------------------------------------------ the ledger's insertion
\* walk of one insertion from level i upwards: on an even position the
\* current hash becomes the level's filled subtree and is combined with the
\* level's zero, on an odd position the filled subtree is combined with the
\* current hash; the position is halved
RECURSIVE LedgerWalk(_, _, _, _)
LedgerWalk(filled, i, hash, p) ==
  IF i = TreeDepth THEN [filled |-> filled, root |-> hash]
  ELSE IF p % 2 = 0
  THEN LedgerWalk([filled EXCEPT ![i] = hash], i + 1, mimc7(hash, ZeroAt(i)), p \div 2)
  ELSE LedgerWalk(filled, i + 1, mimc7(filled[i], hash), p \div 2)

\* insert(commitment): refused when the tree is full
LedgerInsert(c) ==
  /\ Len(lgCommitments) < TreeCapacity
  /\ LET w == LedgerWalk(lgFilled, 0, c, Len(lgCommitments))
     IN /\ lgFilled' = w.filled
        /\ lgRoot' = w.root
  /\ lgCommitments' = Append(lgCommitments, c)

\* ----------------------------------- rebuildIncrementalTree, buildMerklePath
\* nodeValues[level][position] = value
SetNode(nv, level, pos, value) ==
  [x \in (DOMAIN nv) \cup {<<level, pos>>} |->
     IF x = <<level, pos>> THEN value ELSE nv[x]]

\* nodeValues[level][position], undefined where nothing was stored
NodeAt(nv, level, pos) ==
  IF <<level, pos>> \in DOMAIN nv THEN nv[<<level, pos>>] ELSE Undefined

OddHashSwapped(filledSubtree, currentHash) == mimc7(currentHash, filledSubtree)

\* currentHash = mimc7(filledSubtrees[i], currentHash)
OddHash(filledSubtree, currentHash) == mimc7(filledSubtree, currentHash)

\* the inner loop `for (let i = 0; i < depth; i++)` of one insertion, from
\* level i on; after it root = currentHash
RECURSIVE InsertLevels(_, _, _, _, _)
InsertLevels(st, idx, i, currentHash, currentIndex) ==
  IF i = TreeDepth THEN [st EXCEPT !.root = currentHash]
  ELSE IF currentIndex % 2 = 0
  THEN LET h == mimc7(currentHash, zeros[i])
       IN InsertLevels(
            [st EXCEPT !.filledSubtrees[i] = currentHash,
                       !.nodeValues = SetNode(@, i + 1, idx \div (2 ^ (i + 1)), h)],
            idx, i + 1, h, currentIndex \div 2)
  ELSE IF st.filledSubtrees[i] = Undefined
  THEN [st EXCEPT !.threw = TRUE]
  ELSE LET h == OddHash(st.filledSubtrees[i], currentHash)
       IN InsertLevels(
            [st EXCEPT !.nodeValues = SetNode(@, i + 1, idx \div (2 ^ (i + 1)), h)],
            idx, i + 1, h, currentIndex \div 2)

\* the outer loop `for (let idx = 0; idx < commitments.length; idx++)`
RECURSIVE InsertAll(_, _, _)
InsertAll(st, list, idx) ==
  IF st.threw \/ idx >= Len(list) THEN st
  ELSE LET leaf == toBigInt(list[idx + 1])
       IN InsertAll(
            InsertLevels([st EXCEPT !.nodeValues = SetNode(@, 0, idx, leaf)],
                         idx, 0, leaf, idx),
            list, idx + 1)

rebuildIncrementalTree(list) ==
  InsertAll([NoTree EXCEPT !.root = zeros[TreeDepth - 1]], list, 0)

\* pos ^ 1
SiblingPos(pos) == IF pos % 2 = 0 THEN pos + 1 ELSE pos - 1

SiblingNeverZero(nv, i, siblingPos) == NodeAt(nv, i, siblingPos)

\* nodeValues[i][siblingPos] !== undefined ? nodeValues[i][siblingPos] : zeros[i]
Sibling(nv, i, siblingPos) ==
  IF NodeAt(nv, i, siblingPos) # Undefined THEN NodeAt(nv, i, siblingPos)
  ELSE zeros[i]

buildMerklePath(list, targetIndex) ==
  IF targetIndex < 0 \/ targetIndex >= Len(list)
  THEN [NoPath EXCEPT !.threw = TRUE]
  ELSE LET t == rebuildIncrementalTree(list)
       IN IF t.threw THEN [NoPath EXCEPT !.threw = TRUE]
          ELSE [threw |-> FALSE,
                path |-> [k \in 1..TreeDepth |->
                            HexString(Sibling(t.nodeValues, k - 1,
                                              SiblingPos(targetIndex \div (2 ^ (k - 1)))))],
                indices |-> [k \in 1..TreeDepth |-> (targetIndex \div (2 ^ (k - 1))) % 2],
                root |-> HexString(t.root)]

\* merklePath[i] ?? "0" resp. merklePathIndices[i] ?? "0", as a value
PathAt(merklePath, i) ==
  IF i + 1 <= Len(merklePath) THEN toBigInt(merklePath[i + 1]) ELSE Leaf(0)
IndexAt(merklePathIndices, i) ==
  IF i + 1 <= Len(merklePathIndices) THEN merklePathIndices[i + 1] ELSE 0

RECURSIVE RootFromPath(_, _, _, _)
RootFromPath(current, merklePath, merklePathIndices, i) ==
  IF i = TreeDepth THEN current
  ELSE IF IndexAt(merklePathIndices, i) = 0
  THEN RootFromPath(mimc7(current, PathAt(merklePath, i)), merklePath, merklePathIndices, i + 1)
  ELSE RootFromPath(mimc7(PathAt(merklePath, i), current), merklePath, merklePathIndices, i + 1)

computeMerkleRootFromPath(leafValue, merklePath, merklePathIndices) ==
  RootFromPath(toBigInt(leafValue), merklePath, merklePathIndices, 0)

\* the commitment lists the tree functions are applied to: bytes32 strings,
\* up to one more than the tree holds
RECURSIVE ListsOfLength(_)
ListsOfLength(n) ==
  IF n = 0 THEN {<<>>}
  ELSE {Append(l, HexString(Leaf(v))) : l \in ListsOfLength(n - 1), v \in LeafValues}
CommitmentLists == UNION {ListsOfLength(n) : n \in 0..(TreeCapacity + 1)}

\* rebuildIncrementalTree(commitments) is called
Rebuild ==
  /\ ~tRebuilt.called
  /\ tRebuilt' = [called |-> TRUE, out |-> rebuildIncrementalTree(commitments)]
  /\ UNCHANGED <<commitments, tPath, tRecombined, ledgerVars>>

\* buildMerklePath(commitments, targetIndex) is called
BuildPath(targetIndex) ==
  /\ ~tPath.called
  /\ tPath' = [called |-> TRUE, targetIndex |-> targetIndex,
               out |-> buildMerklePath(commitments, targetIndex)]
  /\ UNCHANGED <<commitments, tRebuilt, tRecombined, ledgerVars>>

\* computeMerkleRootFromPath(commitments[targetIndex], path, indices) is called
Recombine ==
  /\ tPath.called /\ ~tPath.out.threw
  /\ tRecombined = Undefined
  /\ tRecombined' = computeMerkleRootFromPath(commitments[tPath.targetIndex + 1],
                                              tPath.out.path, tPath.out.indices)
  /\ UNCHANGED <<commitments, tRebuilt, tPath, ledgerVars>>

\* the ledger takes the next commitment of the list
Replay ==
  /\ Len(lgCommitments) < Len(commitments)
  /\ LedgerInsert(toBigInt(commitments[Len(lgCommitments) + 1]))
  /\ UNCHANGED treeVars

InitTree ==
  /\ VNInit(0) /\ thresholdBps = DefaultThresholdBps
  /\ PipeIdle
  /\ CoordIdle
  /\ RetryIdle
  /\ HandlerIdle
  /\ LedgerEmpty
  /\ commitments \in CommitmentLists
  /\ tRebuilt = NoTreeCall
  /\ tPath = NoPathCall
  /\ tRecombined = Undefined
  /\ SyncIdle
  /\ ProofIdle
  /\ BackendIdle
  /\ MoreIdle

TreeFrame ==
  UNCHANGED <<vnVars, pipeVars, coordVars, retryVars, handlerVars, syncVars, proofVars, backendVars, moreVars>>
TreeRebuild == Rebuild /\ TreeFrame
TreeBuildPath ==
  \E targetIndex \in (-1)..Len(commitments) : BuildPath(targetIndex) /\ TreeFrame
TreeRecombine == Recombine /\ TreeFrame
TreeReplay == Replay /\ TreeFrame

NextTree == TreeRebuild \/ TreeBuildPath \/ TreeRecombine \/ TreeReplay
SpecTree == InitTree /\ [][NextTree]_vars

\* ---------------------- GET /merkle/:commitment, fetchMerkleProofFromChain
\* find / findIndex: the first index (from 0) holding the commitment, -1 if
\* none
RECURSIVE FindIndex(_, _, _)
FindIndex(list, c, i) ==
  IF i >= Len(list) THEN -1
  ELSE IF list[i + 1] = c THEN i
  ELSE FindIndex(list, c, i + 1)

\* a deposit, swap or withdrawal of anyone inserts a commitment on the ledger
LedgerAppend(v) ==
  /\ LedgerInsert(Leaf(v))
  /\ UNCHANGED syncVars

\* GET /merkle/:commitment comes in, or submitWithdraw calls
\* fetchMerkleProofFromChain(commitment)
LookupStart(op, c) ==
  /\ mOp = "none"
  /\ mOp' = op
  /\ mTarget' = c
  /\ mPc' = IF op = "get" THEN "root" ELSE "sync"
  /\ UNCHANGED <<mOnChainRoot, mSynced, mResponse, ledgerVars>>

\* GET /merkle: const onChainRoot = await contract.merkleRoot()
ReadOnChainRoot ==
  /\ mPc = "root"
  /\ mOnChainRoot' = HexString(lgRoot)
  /\ mPc' = "sync"
  /\ UNCHANGED <<mOp, mTarget, mSynced, mResponse, ledgerVars>>

\* count = await contract.commitmentCount(), then commitments(i) for i < count
SyncCommitments ==
  /\ mPc = "sync"
  /\ mSynced' = [k \in 1..Len(lgCommitments) |-> HexString(lgCommitments[k])]
  /\ mPc' = "build"
  /\ UNCHANGED <<mOp, mTarget, mOnChainRoot, mResponse, ledgerVars>>

\* root.toLowerCase() === onChainRoot.toLowerCase()
RootsMatch(root, onChainRoot) == root = onChainRoot

\* GET /merkle from the search of the commitment on: 404, 500 on a root
\* mismatch, else the path
GetMerkleResponds ==
  /\ mOp = "get" /\ mPc = "build"
  /\ LET idx == FindIndex(mSynced, mTarget, 0)
         built == buildMerklePath(mSynced, idx)
     IN mResponse' =
          IF idx = -1 THEN [status |-> "notFound", out |-> NoPath]
          ELSE IF built.threw THEN [status |-> "error", out |-> NoPath]
          ELSE IF ~RootsMatch(built.root, mOnChainRoot)
          THEN [status |-> "mismatch", out |-> NoPath]
          ELSE [status |-> "ok", out |-> built]
  /\ mPc' = "done"
  /\ UNCHANGED <<mOp, mTarget, mOnChainRoot, mSynced, ledgerVars>>

\* fetchMerkleProofFromChain from findIndex on: throws if the commitment is
\* not there, else returns the path and the rebuilt root
FetchReturns ==
  /\ mOp = "fetch" /\ mPc = "build"
  /\ LET idx == FindIndex(mSynced, mTarget, 0)
         built == buildMerklePath(mSynced, idx)
     IN mResponse' =
          IF idx = -1 \/ built.threw THEN [status |-> "threw", out |-> NoPath]
          ELSE [status |-> "returned", out |-> built]
  /\ mPc' = "done"
  /\ UNCHANGED <<mOp, mTarget, mOnChainRoot, mSynced, ledgerVars>>

\* the look-up is over
LookupDone ==
  /\ mPc = "done"
  /\ mOp' = "none"
  /\ mPc' = "idle"
  /\ mTarget' = HexString(Undefined)
  /\ mOnChainRoot' = HexString(Undefined)
  /\ mSynced' = <<>>
  /\ mResponse' = NoMerkleResponse
  /\ UNCHANGED ledgerVars

InitSync ==
  /\ VNInit(0) /\ thresholdBps = DefaultThresholdBps
  /\ PipeIdle
  /\ CoordIdle
  /\ RetryIdle
  /\ HandlerIdle
  /\ LedgerEmpty
  /\ TreeIdle
  /\ SyncIdle
  /\ ProofIdle
  /\ BackendIdle
  /\ MoreIdle

SyncFrame ==
  UNCHANGED <<vnVars, pipeVars, coordVars, retryVars, handlerVars, treeVars, proofVars, backendVars, moreVars>>
SyncLedgerAppend == \E v \in LeafValues : LedgerAppend(v) /\ SyncFrame
SyncLookupStart ==
  \E op \in {"get", "fetch"}, v \in LeafValues :
    LookupStart(op, HexString(Leaf(v))) /\ SyncFrame
SyncReadOnChainRoot == ReadOnChainRoot /\ SyncFrame
SyncCommitmentsRead == SyncCommitments /\ SyncFrame
SyncGetMerkleResponds == GetMerkleResponds /\ SyncFrame
SyncFetchReturns == FetchReturns /\ SyncFrame
SyncLookupDone == LookupDone /\ SyncFrame

NextSync ==
  \/ SyncLedgerAppend
  \/ SyncLookupStart
  \/ SyncReadOnChainRoot
  \/ SyncCommitmentsRead
  \/ SyncGetMerkleResponds
  \/ SyncFetchReturns
  \/ SyncLookupDone

SpecSync == InitSync /\ [][NextSync]_vars

\* ------------------------------------------------------- generateSwapProof
\* mimc7(mimc7(mimc7(assetId, amount), blinding), ownerKey), as a decimal string
mimcCommitment(assetId, amount, blinding, ownerKey) ==
  DecString(mimc7(mimc7(mimc7(assetId, amount), blinding), ownerKey))

mimcNullifier(commitment, ownerKey) == DecString(mimc7(commitment, ownerKey))

\* a note commitment as the caller sends it, a hex string
NoteCommitment(assetId, amount, blinding, ownerKey) ==
  HexString(mimc7(mimc7(mimc7(assetId, amount), blinding), ownerKey))

AmountFormats == {"hex", "dec"}
Amounts == 0..MaxAmount
AmountString(fmt, n) == IF fmt = "hex" THEN HexString(n) ELSE DecString(n)
AssetIds == {1, 2}
\* protocolFee and gasRefund as the relayer quotes them
FeeAmounts == {0, 1}

\* the Merkle inputs of a request: a path one level short of the tree's depth
\* (formatMerklePath pads it) and indices that are not yet reduced to a bit
SuppliedPath == [k \in 1..(TreeDepth - 1) |-> HexString(20 + k)]
SuppliedIndices == [k \in 1..(TreeDepth - 1) |-> DecString(k)]

ArrayIsArray(value) == 0 \notin DOMAIN value

\* a % 2n on BigInt: the remainder carries the sign of the dividend
RemTwo(a) == IF a >= 0 THEN a % 2 ELSE 0 - ((0 - a) % 2)

\* const formatMerklePath = (path) => ...: not an array gives ten "0"; else
\* the first ten entries, empty or zero ones as "0", the others as decimal
\* strings, padded with "0" to the tree's depth
formatMerklePath(path) ==
  IF ~ArrayIsArray(path) THEN [k \in 1..TreeDepth |-> DecString(0)]
  ELSE [k \in 1..TreeDepth |->
          IF k <= Len(path)
          THEN IF toBigInt(path[k]) = 0 THEN DecString(0) ELSE toBigIntString(path[k])
          ELSE DecString(0)]

\* const formatMerkleIndices = (indices) => ...: String(num % 2n), padded
formatMerkleIndices(indices) ==
  IF ~ArrayIsArray(indices) THEN [k \in 1..TreeDepth |-> DecString(0)]
  ELSE [k \in 1..TreeDepth |->
          IF k <= Len(indices) THEN DecString(RemTwo(toBigInt(indices[k])))
          ELSE DecString(0)]

\* the root the self-check of generateSwapProof computes: at every level
\* left = cur + idx * (path - cur), right = path + idx * (cur - path) in the
\* field, i.e. (cur, path) for idx 0 and (path, cur) for idx 1
RECURSIVE PathRootFrom(_, _, _, _)
PathRootFrom(computedRoot, merklePath, merklePathIndices, i) ==
  IF i = TreeDepth THEN computedRoot
  ELSE LET pathValue == BigInt(merklePath[i + 1])
           idx == BigInt(merklePathIndices[i + 1])
           left == IF idx = 0 THEN computedRoot ELSE pathValue
           right == IF idx = 0 THEN pathValue ELSE computedRoot
       IN  PathRootFrom(mimc7(left, right), merklePath, merklePathIndices, i + 1)

\* the root a leaf has under the supplied path
RootOver(leaf) ==
  PathRootFrom(leaf, formatMerklePath(SuppliedPath),
               formatMerkleIndices(SuppliedIndices), 0)

NoteHash(assetId, amount, blinding, ownerKey) ==
  mimc7(mimc7(mimc7(assetId, amount), blinding), ownerKey)

\* the swapData a caller can send: one input note of asset 1, a swap note of
\* asset 2 and a change note whose asset and amount the caller chooses
\* freely; each supplied commitment, the nullifier and the Merkle root are
\* either the ones of the declared fields or those of another amount
SwapDataOf(fmt, inAmt, swapAmt, fee, gas, chAsset, chAmt, off) ==
  [inputNote |->
     [assetID |-> 1, amount |-> AmountString(fmt, inAmt),
      blindingFactor |-> HexString(11), ownerPublicKey |-> HexString(13),
      nullifier |->
        HexString(mimc7(NoteHash(1, inAmt + off.nullifier, 11, 13), 13)),
      commitment |-> NoteCommitment(1, inAmt + off.input, 11, 13)],
   outputNoteSwap |->
     [assetID |-> 2, amount |-> AmountString(fmt, swapAmt),
      blindingFactor |-> HexString(14),
      commitment |-> NoteCommitment(2, swapAmt + off.swap, 14, 13)],
   outputNoteChange |->
     [assetID |-> chAsset, amount |-> AmountString(fmt, chAmt),
      blindingFactor |-> HexString(12),
      commitment |-> NoteCommitment(chAsset, chAmt + off.change, 12, 13)],
   merkleRoot |-> HexString(RootOver(NoteHash(1, inAmt + off.root, 11, 13))),
   merklePath |-> SuppliedPath,
   merklePathIndices |-> SuppliedIndices,
   swapAmount |-> AmountString(fmt, swapAmt),
   minOutputAmount |-> AmountString(fmt, 0),
   protocolFee |-> AmountString(fmt, fee),
   gasRefund |-> AmountString(fmt, gas)]

Offsets == [input : {0, 1}, nullifier : {0, 1}, swap : {0, 1}, change : {0, 1}, root : {0, 1}]

SwapDatas ==
  {SwapDataOf(fmt, inAmt, swapAmt, fee, gas, chAsset, chAmt, off) :
     fmt \in AmountFormats, inAmt \in Amounts, swapAmt \in Amounts,
     fee \in FeeAmounts, gas \in FeeAmounts, chAsset \in AssetIds,
     chAmt \in Amounts, off \in Offsets}

\* const circuitInputs = { ... }
BuildCircuitInputs(d) ==
  [inputAssetID |-> DecString(d.inputNote.assetID),
   inputAmount |-> toBigIntString(d.inputNote.amount),
   inputBlindingFactor |-> toBigIntString(d.inputNote.blindingFactor),
   ownerPublicKey |-> toBigIntString(d.inputNote.ownerPublicKey),
   outputAssetIDSwap |-> DecString(d.outputNoteSwap.assetID),
   outputAmountSwap |-> toBigIntString(d.outputNoteSwap.amount),
   swapBlindingFactor |-> toBigIntString(d.outputNoteSwap.blindingFactor),
   outputAssetIDChange |-> DecString(d.outputNoteChange.assetID),
   changeAmount |-> toBigIntString(d.outputNoteChange.amount),
   changeBlindingFactor |-> toBigIntString(d.outputNoteChange.blindingFactor),
   swapAmount |-> toBigIntString(d.swapAmount),
   nullifier |-> toBigIntString(d.inputNote.nullifier),
   inputCommitment |-> toBigIntString(d.inputNote.commitment),
   outputCommitmentSwap |-> toBigIntString(d.outputNoteSwap.commitment),
   outputCommitmentChange |-> toBigIntString(d.outputNoteChange.commitment),
   merkleRoot |-> toBigIntString(d.merkleRoot),
   outputAmountSwapPublic |-> toBigIntString(d.outputNoteSwap.amount),
   minOutputAmountSwap |-> toBigIntString(d.minOutputAmount),
   protocolFee |-> toBigIntString(d.protocolFee),
   gasRefund |-> toBigIntString(d.gasRefund),
   merklePath |-> formatMerklePath(d.merklePath),
   merklePathIndices |-> formatMerkleIndices(d.merklePathIndices)]

\* the commitment of the change note that circuitInputs describes
ChangeCommitmentOf(ci) ==
  mimcCommitment(BigInt(ci.outputAssetIDChange), BigInt(ci.changeAmount),
                 BigInt(ci.changeBlindingFactor), BigInt(ci.ownerPublicKey))

\* if (circuitInputs.outputAssetIDChange !== circuitInputs.inputAssetID) ...
AdjustChangeAsset(ci) ==
  IF ci.outputAssetIDChange # ci.inputAssetID
  THEN LET moved == [ci EXCEPT !.outputAssetIDChange = ci.inputAssetID]
       IN  [moved EXCEPT !.outputCommitmentChange = ChangeCommitmentOf(moved)]
  ELSE ci

NullifierTrusted(ci) == ci

\* if (expectedNullifier !== circuitInputs.nullifier) ...
RecomputeNullifier(ci) ==
  LET expectedNullifier ==
        mimcNullifier(BigInt(ci.inputCommitment), BigInt(ci.ownerPublicKey))
  IN  IF expectedNullifier # ci.nullifier
      THEN [ci EXCEPT !.nullifier = expectedNullifier]
      ELSE ci

\* if (BigInt(outputAmountSwapPublic) !== BigInt(outputAmountSwap)) ...
AlignSwapOutput(ci) ==
  IF BigInt(ci.outputAmountSwapPublic) # BigInt(ci.outputAmountSwap)
  THEN [ci EXCEPT !.outputAmountSwapPublic = ci.outputAmountSwap]
  ELSE ci

\* inputAmountBigInt - swapAmountBigInt - protocolFeeBigInt - gasRefundBigInt
ExpectedChange(d) ==
  toBigInt(d.inputNote.amount) - toBigInt(d.swapAmount)
    - toBigInt(d.protocolFee) - toBigInt(d.gasRefund)

ConservationToleratesOne(expectedChange, changeAmountBigInt) ==
  \/ expectedChange - changeAmountBigInt > 1
  \/ changeAmountBigInt - expectedChange > 1

\* if (expectedChange !== changeAmountBigInt)
ConservationViolated(expectedChange, changeAmountBigInt) ==
  expectedChange # changeAmountBigInt

\* ... circuitInputs.changeAmount = expectedChange.toString(), and the change
\* commitment is recomputed for it
EnforceConservation(d, ci) ==
  LET expectedChange == ExpectedChange(d)
      changeAmountBigInt == toBigInt(d.outputNoteChange.amount)
  IN  IF ConservationViolated(expectedChange, changeAmountBigInt)
      THEN [ci EXCEPT !.changeAmount = DecString(expectedChange),
                      !.outputCommitmentChange =
                         mimcCommitment(BigInt(ci.outputAssetIDChange), expectedChange,
                                        BigInt(ci.changeBlindingFactor),
                                        BigInt(ci.ownerPublicKey))]
      ELSE ci

\* if (expectedSwapCommitment !== circuitInputs.outputCommitmentSwap) ...
\* (the input commitment is compared as well, and a mismatch only logged)
RecomputeSwapCommitment(ci) ==
  LET expectedSwapCommitment ==
        mimcCommitment(BigInt(ci.outputAssetIDSwap), BigInt(ci.outputAmountSwap),
                       BigInt(ci.swapBlindingFactor), BigInt(ci.ownerPublicKey))
  IN  IF expectedSwapCommitment # ci.outputCommitmentSwap
      THEN [ci EXCEPT !.outputCommitmentSwap = expectedSwapCommitment]
      ELSE ci

\* if (expectedChangeCommitment !== circuitInputs.outputCommitmentChange) ...
RecomputeChangeCommitment(ci) ==
  LET expectedChangeCommitment == ChangeCommitmentOf(ci)
  IN  IF expectedChangeCommitment # ci.outputCommitmentChange
      THEN [ci EXCEPT !.outputCommitmentChange = expectedChangeCommitment]
      ELSE ci

\* circuitInputs when the debug artifact is written
InputsAtDebugWrite(d) == RecomputeNullifier(AdjustChangeAsset(BuildCircuitInputs(d)))

\* circuitInputs as it stands when the DEV_BYPASS_PROOFS test is reached
CorrectedInputs(d) ==
  RecomputeChangeCommitment(
    RecomputeSwapCommitment(
      EnforceConservation(d, AlignSwapOutput(InputsAtDebugWrite(d)))))

\* if (expectedInputCommitment !== circuitInputs.inputCommitment) console.log
InputCommitmentMismatch(ci) ==
  mimcCommitment(BigInt(ci.inputAssetID), BigInt(ci.inputAmount),
                 BigInt(ci.inputBlindingFactor), BigInt(ci.ownerPublicKey))
    # ci.inputCommitment

MerkleRootMismatchUnseen(ci) == FALSE

\* if (computedRoot !== expectedRoot) console.error ... "Continuing anyway"
MerkleRootMismatch(ci) ==
  PathRootFrom(BigInt(ci.inputCommitment), ci.merklePath, ci.merklePathIndices, 0)
    # BigInt(ci.merkleRoot)

\* generateSwapProof(swapData) up to its first await: with DEV_BYPASS_PROOFS
\* it returns a stub proof before the Merkle self-check, without calling the
\* prover
generateSwapProof ==
  /\ gPc = "idle"
  /\ circuitInputs' = CorrectedInputs(swapData)
  /\ debugArtifact' = InputsAtDebugWrite(swapData)
  /\ gLog' =
       {m \in {"input commitment mismatch"} :
          InputCommitmentMismatch(CorrectedInputs(swapData))}
       \cup {m \in {"merkle root mismatch"} :
               ~devBypassProofs /\ MerkleRootMismatch(CorrectedInputs(swapData))}
  /\ gPc' = IF devBypassProofs THEN "returned" ELSE "proving"
  /\ UNCHANGED <<devBypassProofs, swapData, proverInputs>>

\* snarkjs.wtns.calculate(circuitInputs, ...), whose failure is caught and
\* logged, and proveWithRapidsnarkOrSnarkjs(circuitInputs, ...): the prover
\* gets circuitInputs and yields a proof, or fails and the error is rethrown
Prove(ok) ==
  /\ gPc = "proving"
  /\ proverInputs' = circuitInputs
  /\ gPc' = IF ok THEN "returned" ELSE "threw"
  /\ UNCHANGED <<devBypassProofs, swapData, circuitInputs, debugArtifact, gLog>>

InitProof ==
  /\ VNInit(0) /\ thresholdBps = DefaultThresholdBps
  /\ PipeIdle
  /\ CoordIdle
  /\ RetryIdle
  /\ HandlerIdle
  /\ LedgerEmpty
  /\ TreeIdle
  /\ SyncIdle
  /\ devBypassProofs \in BOOLEAN
  /\ swapData \in SwapDatas
  /\ gPc = "idle"
  /\ circuitInputs = NoCircuitInputs
  /\ proverInputs = NoCircuitInputs
  /\ debugArtifact = NoCircuitInputs
  /\ gLog = {}
  /\ BackendIdle
  /\ MoreIdle

ProofFrame ==
  UNCHANGED <<vnVars, pipeVars, coordVars, retryVars, handlerVars, ledgerVars, treeVars,
              syncVars, backendVars, moreVars>>
ProofBuild == generateSwapProof /\ ProofFrame
ProofProve == \E ok \in BOOLEAN : Prove(ok) /\ ProofFrame

NextProof ==
  \/ ProofBuild
  \/ ProofProve

SpecProof == InitProof /\ [][NextProof]_vars

\* ------------------------------------------- proveWithRapidsnarkOrSnarkjs
\* what the call finds on the machine: RAPIDSNARK_PATH set, the files that
\* exist, whether @zk-kit/groth16 could be loaded, and the circuit type
ProverEnvs ==
  [rapidsnarkPath : BOOLEAN, binary : BOOLEAN, wasm : BOOLEAN, zkey : BOOLEAN,
   genWitness : BOOLEAN, zkKitProve : BOOLEAN, circuitType : {"joinsplit", "portfolio"}]

\* inputPath, wtnsPath, proofPath, publicPath
TempFiles == {"input", "witness", "proof", "public"}

\* rapidsnarkPath && fs.existsSync(rapidsnarkPath) && fs.existsSync(wasmPath)
\* && fs.existsSync(zkeyPath)
NativeAvailable(env) == env.rapidsnarkPath /\ env.binary /\ env.wasm /\ env.zkey

InProcessBaselineOnly(env) == "snarkjs"

\* if (zkKitProve) ... zkKitProve(...), else snarkjs.groth16.fullProve(...)
InProcessFirst(env) == IF env.zkKitProve THEN "zk-kit" ELSE "snarkjs"

UnlinkNothing(files) == files

\* [inputPath, wtnsPath, proofPath, publicPath].forEach(unlinkSync)
UnlinkAll(files) == files \ TempFiles

\* the call, up to its first await
proveWithRapidsnarkOrSnarkjs ==
  /\ bkPc = "idle"
  /\ IF NativeAvailable(bkEnv)
     THEN /\ bkMade' = {"input"}
          /\ IF bkEnv.genWitness
             THEN /\ bkFiles' = {"input"}
                  /\ bkTried' = <<"native">>
                  /\ bkPc' = "witness"
             ELSE /\ bkFiles' = UnlinkAll({"input"})
                  /\ bkTried' = <<"native", InProcessFirst(bkEnv)>>
                  /\ bkPc' = InProcessFirst(bkEnv)
     ELSE /\ bkMade' = {}
          /\ bkFiles' = {}
          /\ bkTried' = <<InProcessFirst(bkEnv)>>
          /\ bkPc' = InProcessFirst(bkEnv)
  /\ UNCHANGED <<bkEnv, bkResult>>

\* the witness generator subprocess closes: a non-zero code or a missing
\* witness file throws into the catch block, otherwise rapidsnark is spawned
WitnessGenCloses(code, created) ==
  /\ bkPc = "witness"
  /\ bkMade' = bkMade \cup created
  /\ IF code = 0 /\ "witness" \in bkFiles \cup created
     THEN /\ bkFiles' = bkFiles \cup created
          /\ bkPc' = "rapidsnark"
          /\ UNCHANGED bkTried
     ELSE /\ bkFiles' = UnlinkAll(bkFiles \cup created)
          /\ bkTried' = Append(bkTried, InProcessFirst(bkEnv))
          /\ bkPc' = InProcessFirst(bkEnv)
  /\ UNCHANGED <<bkEnv, bkResult>>

\* the rapidsnark subprocess closes: a non-zero code, an output file that
\* cannot be read or JSON that cannot be parsed throws into the catch block;
\* otherwise the files are removed and the proof is returned
RapidsnarkCloses(code, written, parses) ==
  /\ bkPc = "rapidsnark"
  /\ bkMade' = bkMade \cup written
  /\ IF code = 0 /\ {"proof", "public"} \subseteq written /\ parses
     THEN /\ bkFiles' = UnlinkAll(bkFiles \cup written)
          /\ bkResult' = "native"
          /\ bkPc' = "returned"
          /\ UNCHANGED bkTried
     ELSE /\ bkFiles' = UnlinkAll(bkFiles \cup written)
          /\ bkTried' = Append(bkTried, InProcessFirst(bkEnv))
          /\ bkPc' = InProcessFirst(bkEnv)
          /\ UNCHANGED bkResult
  /\ UNCHANGED bkEnv

\* await zkKitProve(...): its proof is used, or its failure is swallowed and
\* snarkjs.groth16.fullProve is called
ZkKitSettles(ok) ==
  /\ bkPc = "zk-kit"
  /\ IF ok
     THEN bkResult' = "zk-kit" /\ bkPc' = "returned" /\ UNCHANGED bkTried
     ELSE bkTried' = Append(bkTried, "snarkjs") /\ bkPc' = "snarkjs" /\ UNCHANGED bkResult
  /\ UNCHANGED <<bkEnv, bkFiles, bkMade>>

\* await snarkjs.groth16.fullProve(...): its proof is returned or its error
\* leaves the call
FullProveSettles(ok) ==
  /\ bkPc = "snarkjs"
  /\ IF ok
     THEN bkResult' = "snarkjs" /\ bkPc' = "returned"
     ELSE bkPc' = "threw" /\ UNCHANGED bkResult
  /\ UNCHANGED <<bkEnv, bkFiles, bkMade, bkTried>>

InitBackend ==
  /\ VNInit(0) /\ thresholdBps = DefaultThresholdBps
  /\ PipeIdle
  /\ CoordIdle
  /\ RetryIdle
  /\ HandlerIdle
  /\ LedgerEmpty
  /\ TreeIdle
  /\ SyncIdle
  /\ ProofIdle
  /\ bkEnv \in ProverEnvs
  /\ bkPc = "idle"
  /\ bkFiles = {}
  /\ bkMade = {}
  /\ bkTried = <<>>
  /\ bkResult = "none"
  /\ MoreIdle

BackendFrame ==
  UNCHANGED <<vnVars, pipeVars, coordVars, retryVars, handlerVars, ledgerVars, treeVars,
              syncVars, proofVars, moreVars>>
BackendCall == proveWithRapidsnarkOrSnarkjs /\ BackendFrame
BackendWitnessGen ==
  \E code \in {0, 1}, created \in SUBSET {"witness"} :
    WitnessGenCloses(code, created) /\ BackendFrame
BackendRapidsnark ==
  \E code \in {0, 1}, written \in SUBSET {"proof", "public"}, parses \in BOOLEAN :
    RapidsnarkCloses(code, written, parses) /\ BackendFrame
BackendZkKit == \E ok \in BOOLEAN : ZkKitSettles(ok) /\ BackendFrame
BackendFullProve == \E ok \in BOOLEAN : FullProveSettles(ok) /\ BackendFrame

NextBackend ==
  \/ BackendCall
  \/ BackendWitnessGen
  \/ BackendRapidsnark
  \/ BackendZkKit
  \/ BackendFullProve

SpecBackend == InitBackend /\ [][NextBackend]_vars

\* ------------------ submitSwap / submitWithdraw: the public inputs they pass
\* const normalizeMerklePath = (path) => ...: not an array gives ten "0";
\* else the first ten entries as decimal strings, padded with "0"
normalizeMerklePath(path) ==
  IF ~ArrayIsArray(path) THEN [k \in 1..TreeDepth |-> DecString(0)]
  ELSE [k \in 1..TreeDepth |->
          IF k <= Len(path) THEN toBigIntString(path[k]) ELSE DecString(0)]

\* const normalizeMerkleIndices = (indices) => ...: String(toBigInt(v) % 2n)
\* of the first ten entries (numbers, as buildMerklePath and JSON give them),
\* padded with "0"
normalizeMerkleIndices(indices) ==
  IF ~ArrayIsArray(indices) THEN [k \in 1..TreeDepth |-> DecString(0)]
  ELSE [k \in 1..TreeDepth |->
          IF k <= Len(indices) THEN DecString(RemTwo(indices[k])) ELSE DecString(0)]

\* normalizeJoinSplitPublicInputs(pi, label): both arrays have the fixed
\* length, so the count is always 35 and it never throws
normalizeJoinSplitPublicInputs(pi) ==
  [merklePath |-> normalizeMerklePath(pi.merklePath),
   merklePathIndices |-> normalizeMerkleIndices(pi.merklePathIndices)]

\* buildJoinSplitPublicSignals(pi): nine decimal strings, none of them from
\* merklePath or merklePathIndices; the output commitments and the amounts
\* are passed as the nullifier is
buildJoinSplitPublicSignals(pi) ==
  [nullifier |-> toBigIntString(pi.nullifier),
   inputCommitment |-> toBigIntString(pi.inputCommitment),
   merkleRoot |-> toBigIntString(pi.merkleRoot)]

toBytes32(v) == HexString(toBigInt(v))
toU256(v) == toBigInt(v)

\* publicInputsTuple resp. withdrawPublicInputsTuple
PublicInputsTuple(pi, merkleRoot, merklePath, merklePathIndices) ==
  [nullifier |-> toBytes32(pi.nullifier),
   inputCommitment |-> toBytes32(pi.inputCommitment),
   merkleRoot |-> toBytes32(merkleRoot),
   merklePath |-> [k \in DOMAIN merklePath |-> toU256(merklePath[k])],
   merklePathIndices |-> [k \in DOMAIN merklePathIndices |-> toU256(merklePathIndices[k])]]

\* the locals of submitWithdraw after a refresh is not taken
LocalsOf(pi) ==
  [merkleRoot |-> pi.merkleRoot,
   merklePath |-> normalizeJoinSplitPublicInputs(pi).merklePath,
   merklePathIndices |-> normalizeJoinSplitPublicInputs(pi).merklePathIndices]

\* computedRoot !== expectedRoot, on the normalised arrays
MerkleProofMismatch(pi) ==
  LET m == LocalsOf(pi)
  IN computeMerkleRootFromPath(pi.inputCommitment, m.merklePath,
                               [k \in 1..TreeDepth |-> toBigInt(m.merklePathIndices[k])])
       # toBigInt(m.merkleRoot)

\* only submitWithdraw checks the proof against the root and refreshes
RefreshNeeded(kind, pi) == kind = "withdraw" /\ MerkleProofMismatch(pi)

\* the public inputs a client sends for the note c: a path and a root, each
\* read from the tree at some time (the commitment lists pathList, rootList)
PublicInputsOf(c, pathList, rootList) ==
  LET p == buildMerklePath(pathList, FindIndex(pathList, c, 0))
      r == buildMerklePath(rootList, FindIndex(rootList, c, 0))
  IN [nullifier |-> HexString(mimc7(toBigInt(c), Leaf(0))),
      inputCommitment |-> c,
      merkleRoot |-> r.root,
      merklePath |-> p.path,
      merklePathIndices |-> p.indices]

ClientLists(c) ==
  {l \in ListsOfLength(1) \cup ListsOfLength(2) : FindIndex(l, c, 0) # -1}

PublicInputsChoices ==
  UNION {{PublicInputsOf(HexString(Leaf(v)), pathList, rootList) :
            pathList \in ClientLists(HexString(Leaf(v))),
            rootList \in ClientLists(HexString(Leaf(v)))} : v \in LeafValues}

\* submitSwap(swapData) resp. submitWithdraw(withdrawData) up to the call of
\* validatorNetwork.verifyProof(proof, publicSignals)
SettleSubmit(kind, pi) ==
  /\ sPc = "idle"
  /\ sKind' = kind
  /\ sPi' = pi
  /\ sSignals' = buildJoinSplitPublicSignals(pi)
  /\ sPc' = "consensus"
  /\ UNCHANGED <<sMerkle, sTuple, ledgerVars, syncVars>>

\* verifyProof returns: a rejected result throws; otherwise the arrays are
\* normalised and submitWithdraw compares the root of the path with
\* pi.merkleRoot, calling fetchMerkleProofFromChain(pi.inputCommitment) when
\* they differ
SettleConsensus(valid) ==
  /\ sPc = "consensus"
  /\ UNCHANGED <<sKind, sPi, sSignals, sTuple>>
  /\ IF ~valid
     THEN /\ sPc' = "failed"
          /\ UNCHANGED <<sMerkle, ledgerVars, syncVars>>
     ELSE /\ sMerkle' = LocalsOf(sPi)
          /\ IF RefreshNeeded(sKind, sPi)
             THEN /\ sPc' = "refresh"
                  /\ LookupStart("fetch", sPi.inputCommitment)
             ELSE /\ sPc' = "validated"
                  /\ UNCHANGED <<ledgerVars, syncVars>>

\* await fetchMerkleProofFromChain resumes: its throw leaves submitWithdraw,
\* else merklePath, merklePathIndices and merkleRoot are replaced
SettleRefreshed ==
  /\ sPc = "refresh"
  /\ mPc = "done"
  /\ LookupDone
  /\ UNCHANGED <<sKind, sPi, sSignals, sTuple>>
  /\ IF mResponse.status = "threw"
     THEN sPc' = "failed" /\ UNCHANGED sMerkle
     ELSE /\ sPc' = "validated"
          /\ sMerkle' = [merkleRoot |-> mResponse.out.root,
                         merklePath |-> normalizeMerklePath(mResponse.out.path),
                         merklePathIndices |-> normalizeMerkleIndices(mResponse.out.indices)]

\* the validations are submitted (a revert leaves the function), then
\* shieldedSwapJoinSplit resp. shieldedWithdraw is called with the tuple
SettleCall(outcome) ==
  /\ sPc = "validated"
  /\ UNCHANGED <<sKind, sPi, sSignals, sMerkle, ledgerVars, syncVars>>
  /\ IF outcome = "validationsReverted"
     THEN sPc' = "failed" /\ UNCHANGED sTuple
     ELSE /\ sTuple' = PublicInputsTuple(sPi, sMerkle.merkleRoot, sMerkle.merklePath,
                                         sMerkle.merklePathIndices)
          /\ sPc' = IF outcome = "confirmed" THEN "settled" ELSE "failed"

\* the handler has answered
SettleEnd ==
  /\ sPc \in {"settled", "failed"}
  /\ sPc' = "idle"
  /\ sKind' = "none"
  /\ sPi' = NoPublicInputs
  /\ sSignals' = NoPublicInputs
  /\ sMerkle' = NoPublicInputs
  /\ sTuple' = NoPublicInputs
  /\ UNCHANGED <<ledgerVars, syncVars>>

InitSettle ==
  /\ VNInit(0) /\ thresholdBps = DefaultThresholdBps
  /\ PipeIdle
  /\ CoordIdle
  /\ RetryIdle
  /\ HandlerIdle
  /\ LedgerEmpty
  /\ TreeIdle
  /\ SyncIdle
  /\ ProofIdle
  /\ BackendIdle
  /\ SettleIdle
  /\ MerkleFmtIdle
  /\ ClientIdle

SettleFrame ==
  UNCHANGED <<vnVars, pipeVars, coordVars, retryVars, handlerVars, treeVars, proofVars,
              backendVars, merkleFmtVars, clientVars>>
SettleLedgerAppend ==
  \E v \in LeafValues :
    /\ Len(lgCommitments) < MaxChain
    /\ LedgerAppend(v) /\ UNCHANGED settleVars /\ SettleFrame
SettleStart ==
  \E kind \in {"swap", "withdraw"}, pi \in PublicInputsChoices :
    SettleSubmit(kind, pi) /\ SettleFrame
SettleConsensusReturns == \E valid \in BOOLEAN : SettleConsensus(valid) /\ SettleFrame
SettleCommitmentsRead == SyncCommitments /\ UNCHANGED settleVars /\ SettleFrame
SettleFetchReturns == FetchReturns /\ UNCHANGED settleVars /\ SettleFrame
SettleRefresh == SettleRefreshed /\ SettleFrame
SettleOnChain ==
  \E outcome \in {"validationsReverted", "confirmed", "reverted"} :
    SettleCall(outcome) /\ SettleFrame
SettleDone == SettleEnd /\ SettleFrame

NextSettle ==
  \/ SettleLedgerAppend
  \/ SettleStart
  \/ SettleConsensusReturns
  \/ SettleCommitmentsRead
  \/ SettleFetchReturns
  \/ SettleRefresh
  \/ SettleOnChain
  \/ SettleDone

SpecSettle == InitSettle /\ [][NextSettle]_vars

\* ------------------------------------------ the Merkle arrays of a request
\* what a caller can send as merklePath: nothing, or up to one entry more
\* than the tree's depth, each a zero or a non-zero hex string
SuppliedPaths ==
  {NotArray} \cup
    UNION {[1..n -> {HexString(0), HexString(21)}] : n \in 0..(TreeDepth + 1)}

\* what a caller can send as merklePathIndices: nothing, or up to one entry
\* more than the tree's depth, each an even, odd or negative number
IndexValues == {0 - 1, 0, 1, 2}
SuppliedIndexLists ==
  {NotArray} \cup UNION {[1..n -> IndexValues] : n \in 0..(TreeDepth + 1)}

\* the same indices sent as decimal strings
AsStrings(indices) ==
  IF ~ArrayIsArray(indices) THEN NotArray
  ELSE [k \in DOMAIN indices |-> DecString(indices[k])]

\* generateWithdrawProof's formatMerklePath: toBigIntString of the first ten
\* entries, padded with "0"
formatMerklePathWithdraw(path) ==
  IF ~ArrayIsArray(path) THEN [k \in 1..TreeDepth |-> DecString(0)]
  ELSE [k \in 1..TreeDepth |->
          IF k <= Len(path) THEN toBigIntString(path[k]) ELSE DecString(0)]

\* generateSwapProof: merklePath and merklePathIndices of circuitInputs
FormatSwapArrays ==
  /\ mfOut' = [fn |-> "generateSwapProof",
               merklePath |-> formatMerklePath(mfPath),
               merklePathIndices |-> formatMerkleIndices(AsStrings(mfIndices))]
  /\ UNCHANGED <<mfPath, mfIndices>>

\* generateWithdrawProof: its own formatMerklePath, and a formatMerkleIndices
\* that is the one of generateSwapProof
FormatWithdrawArrays ==
  /\ mfOut' = [fn |-> "generateWithdrawProof",
               merklePath |-> formatMerklePathWithdraw(mfPath),
               merklePathIndices |-> formatMerkleIndices(AsStrings(mfIndices))]
  /\ UNCHANGED <<mfPath, mfIndices>>

\* normalizeJoinSplitPublicInputs on publicInputs as JSON carries them
NormalizeArrays ==
  /\ mfOut' =
       [fn |-> "normalizeJoinSplitPublicInputs"]
         @@ normalizeJoinSplitPublicInputs(
              [merklePath |-> mfPath, merklePathIndices |-> mfIndices])
  /\ UNCHANGED <<mfPath, mfIndices>>

InitMerkleFmt ==
  /\ VNInit(0) /\ thresholdBps = DefaultThresholdBps
  /\ PipeIdle /\ CoordIdle
  /\ RetryIdle /\ HandlerIdle /\ LedgerEmpty /\ TreeIdle /\ SyncIdle /\ ProofIdle
  /\ BackendIdle /\ SettleIdle /\ ClientIdle
  /\ mfPath \in SuppliedPaths
  /\ mfIndices \in SuppliedIndexLists
  /\ mfOut = NoFormatted

MerkleFmtFrame ==
  UNCHANGED <<vnVars, pipeVars, coordVars, retryVars, handlerVars, ledgerVars, treeVars,
              syncVars, proofVars, backendVars, settleVars, clientVars>>
MerkleFmtSwap == FormatSwapArrays /\ MerkleFmtFrame
MerkleFmtWithdraw == FormatWithdrawArrays /\ MerkleFmtFrame
MerkleFmtNormalize == NormalizeArrays /\ MerkleFmtFrame

NextMerkleFmt ==
  \/ MerkleFmtSwap
  \/ MerkleFmtWithdraw
  \/ MerkleFmtNormalize

SpecMerkleFmt == InitMerkleFmt /\ [][NextMerkleFmt]_vars

\* ------------------------------------------ validator client: connect()
\* setTimeout(connect, 5000)
ReconnectDelayMs == 5000
\* the step by which the model lets time pass
ClientTickMs == 1000
\* the connections that may be lost or refused in one run
MaxFaults == MaxSockets - 1

\* const ws = new WebSocket(COORDINATOR_URL): not yet open, nothing sent
NewSocket(waited) ==
  [st |-> "connecting", sentRegister |-> FALSE, registered |-> FALSE,
   waited |-> waited]

SchedulesReconnectOnAny(event) == TRUE

\* ws.on("close", ...) calls setTimeout(connect, 5000); ws.on("error", ...)
\* only logs
SchedulesReconnect(event) == event = "close"

\* the timers the handlers of the given events set, in order
RECURSIVE TimersSetBy(_)
TimersSetBy(events) ==
  IF events = <<>> THEN <<>>
  ELSE (IF SchedulesReconnect(Head(events)) THEN <<ReconnectDelayMs>> ELSE <<>>)
         \o TimersSetBy(Tail(events))

\* what the ws library emits when a socket ends: "close" once, after an
\* "error" if the handshake or the transport failed
EndEvents == {<<"close">>, <<"error", "close">>}

\* socket k ends with the given events: its handlers run in order
SocketEnds(k, events) ==
  /\ cSocks' = [cSocks EXCEPT ![k] = [@ EXCEPT !.st = "closed", !.registered = FALSE]]
  /\ cTimers' = cTimers \o TimersSetBy(events)
  /\ cSinceClose' = 0

\* connect(), run by a timer that has expired
TimerFires ==
  /\ cTimers # <<>>
  /\ Head(cTimers) = 0
  /\ Len(cSocks) < MaxSockets
  /\ cSocks' = Append(cSocks, NewSocket(cSinceClose))
  /\ cTimers' = Tail(cTimers)
  /\ UNCHANGED <<cSinceClose, cFaults>>

\* time passes while a timer is pending and none is due: by one step of the
\* clock, or up to the next expiry if that is sooner
TimePasses ==
  /\ cTimers # <<>>
  /\ \A t \in 1..Len(cTimers) : cTimers[t] > 0
  /\ LET step == IF \E t \in 1..Len(cTimers) : cTimers[t] < ClientTickMs
                 THEN CHOOSE d \in {cTimers[t] : t \in 1..Len(cTimers)} :
                        \A t \in 1..Len(cTimers) : d <= cTimers[t]
                 ELSE ClientTickMs
     IN /\ cTimers' = [t \in 1..Len(cTimers) |-> cTimers[t] - step]
        /\ cSinceClose' = cSinceClose + step
  /\ UNCHANGED <<cSocks, cFaults>>

\* ws.on("open"): ws.send({type: "register", address})
SocketOpens(k) ==
  /\ cSocks[k].st = "connecting"
  /\ cSocks' = [cSocks EXCEPT ![k] = [@ EXCEPT !.st = "open", !.sentRegister = TRUE]]
  /\ UNCHANGED <<cTimers, cSinceClose, cFaults>>

\* the coordinator cannot be reached: the handshake fails
HandshakeFails(k) ==
  /\ cSocks[k].st = "connecting"
  /\ cFaults < MaxFaults
  /\ cFaults' = cFaults + 1
  /\ SocketEnds(k, <<"error", "close">>)

\* the coordinator's register handler with sufficient stake: stakers.set and
\* the "registered" message, which the client logs
RegistrationAccepted(k) ==
  /\ cSocks[k].st = "open"
  /\ cSocks[k].sentRegister
  /\ ~cSocks[k].registered
  /\ cSocks' = [cSocks EXCEPT ![k] = [@ EXCEPT !.registered = TRUE]]
  /\ UNCHANGED <<cTimers, cSinceClose, cFaults>>

\* the coordinator's register handler with a stake below 1000: the "error"
\* message, which the client logs, and ws.close()
RegistrationRefused(k) ==
  /\ cSocks[k].st = "open"
  /\ cSocks[k].sentRegister
  /\ ~cSocks[k].registered
  /\ cFaults < MaxFaults
  /\ cFaults' = cFaults + 1
  /\ SocketEnds(k, <<"close">>)

\* network loss or a coordinator restart ends an open connection
ConnectionLost(k, events) ==
  /\ cSocks[k].st = "open"
  /\ cFaults < MaxFaults
  /\ cFaults' = cFaults + 1
  /\ SocketEnds(k, events)

\* the module's last statement has called connect()
InitClient ==
  /\ VNInit(0) /\ thresholdBps = DefaultThresholdBps
  /\ PipeIdle /\ CoordIdle
  /\ RetryIdle /\ HandlerIdle /\ LedgerEmpty /\ TreeIdle /\ SyncIdle /\ ProofIdle
  /\ BackendIdle /\ SettleIdle /\ MerkleFmtIdle
  /\ cSocks = <<NewSocket(0)>>
  /\ cTimers = <<>>
  /\ cSinceClose = 0
  /\ cFaults = 0

ClientFrame ==
  UNCHANGED <<vnVars, pipeVars, coordVars, retryVars, handlerVars, ledgerVars, treeVars,
              syncVars, proofVars, backendVars, settleVars, merkleFmtVars>>
ClientReconnects == TimerFires /\ ClientFrame
ClientWaits == TimePasses /\ ClientFrame
ClientOpens == \E k \in 1..Len(cSocks) : SocketOpens(k) /\ ClientFrame
ClientRegistered == \E k \in 1..Len(cSocks) : RegistrationAccepted(k) /\ ClientFrame
ClientHandshakeFails == \E k \in 1..Len(cSocks) : HandshakeFails(k) /\ ClientFrame
ClientRefused == \E k \in 1..Len(cSocks) : RegistrationRefused(k) /\ ClientFrame
ClientLosesConnection ==
  \E k \in 1..Len(cSocks), events \in EndEvents : ConnectionLost(k, events) /\ ClientFrame

NextClient ==
  \/ ClientReconnects
  \/ ClientWaits
  \/ ClientOpens
  \/ ClientRegistered
  \/ ClientHandshakeFails
  \/ ClientRefused
  \/ ClientLosesConnection

\* Node runs an expired timer's callback; a reachable coordinator accepts the
\* connection and, the stake being sufficient, answers the register message
SpecClient ==
  /\ InitClient /\ [][NextClient]_vars
  /\ WF_vars(ClientWaits)
  /\ WF_vars(ClientReconnects)
  /\ WF_vars(ClientOpens)
  /\ WF_vars(ClientRegistered)

\* ======================================================== properties
\* the endpoints whose request yielded a response body
Responders == {i \in 1..validators : req[i].st = "settled" /\ req[i].value.kind # "null"}
\* the endpoints whose request ended without a response
Silent == {i \in 1..validators : req[i].st = "settled" /\ req[i].value.kind = "null"}
AggregatedResponders == {i \in Responders : req[i].value.kind = "agg"}
DirectMode == AggregatedResponders = {}
FirstAggregated == req[CHOOSE i \in AggregatedResponders :
                         \A j \in AggregatedResponders : i <= j].value
UsableResponses == \A i \in Responders : req[i].value.hasPower

RECURSIVE SumPower(_)
SumPower(S) ==
  IF S = {} THEN 0
  ELSE LET i == CHOOSE x \in S : TRUE
       IN req[i].value.votingPower + SumPower(S \ {i})

RespondedPower == SumPower(Responders)
ValidRespondedPower == SumPower({i \in Responders : req[i].value.valid})

\* C1: in direct mode verifyProof returns valid=true if and only if the
\* voting power of the validators that responded is positive and the power
\* of those that voted valid, times 10000, is at least that total times
\* thresholdBps.
C1_DirectThreshold ==
  (vnPc = "done" /\ DirectMode /\ UsableResponses) =>
    /\ vnResult.outcome = "returned"
    /\ vnResult.valid <=>
         (RespondedPower > 0
            /\ ValidRespondedPower * 10000 >= RespondedPower * thresholdBps)

\* powers 100, 100, 200 with 300 voting valid, threshold 6600: accepted
C1_Witness ==
  /\ vnPc = "done" /\ validators = 3 /\ thresholdBps = DefaultThresholdBps
  /\ \A i \in 1..3 : req[i].value.kind = "vote" /\ req[i].value.hasPower
  /\ req[1].value.votingPower = 100 /\ req[1].value.valid
  /\ req[2].value.votingPower = 100 /\ ~req[2].value.valid
  /\ req[3].value.votingPower = 200 /\ req[3].value.valid
  /\ vnResult.valid /\ Len(vnResult.signatures) = 2

\* the total voting power the call computes: the first aggregated response's
\* totalVotingPower, else the sum over the responders
ComputedTotal ==
  IF DirectMode THEN RespondedPower ELSE FirstAggregated.totalVotingPower

\* C2: in direct and in aggregated mode alike, a verifyProof call whose total
\* voting power is 0 does not return valid=true.
C2_ZeroPowerRejected ==
  (vnPc = "done" /\ ComputedTotal = 0) => ~vnResult.valid

\* a coordinator answered with totalVotingPower 0 and the call rejected
C2_Witness ==
  /\ vnPc = "done" /\ ~DirectMode /\ FirstAggregated.totalVotingPower = 0
  /\ vnResult.outcome = "returned" /\ ~vnResult.valid

\* the valid votes of a direct call, as a function of the endpoint
ValidVoters == {i \in Responders : req[i].value.valid}
SignedEntries(agg) ==
  {k \in 1..Len(agg.signatures) : agg.signatures[k].signature # "none"}

\* C4 as claimed: the signatures of an accepted result are exactly the
\* attestations that voted valid (in aggregated mode the coordinator's list of
\* valid votes), and the signatures of a rejected result are empty.
C4_SignaturesExactlyValidVotes ==
  (vnPc = "done" /\ vnResult.outcome = "returned") =>
    IF vnResult.valid
    THEN IF DirectMode
         THEN /\ Len(vnResult.signatures) = Cardinality(ValidVoters)
              /\ {e.validator : e \in {vnResult.signatures[k] :
                    k \in 1..Len(vnResult.signatures)}} = ValidVoters
         ELSE vnResult.signatures = FirstAggregated.signatures
    ELSE vnResult.signatures = <<>>

\* C4 amended: the signatures of an accepted result are, in direct mode, one
\* entry per responder that voted valid (in endpoint order, with its power)
\* and none for another; in aggregated mode the entries of the first
\* aggregated response's list that carry a signature, in their order; the
\* signatures of a rejected result are empty.
C4_SignaturesOnlyValidVotes ==
  (vnPc = "done" /\ vnResult.outcome = "returned") =>
    IF vnResult.valid
    THEN IF DirectMode
         THEN /\ Len(vnResult.signatures) = Cardinality(ValidVoters)
              /\ \A k \in 1..Len(vnResult.signatures) :
                   LET e == vnResult.signatures[k]
                   IN /\ e.validator \in ValidVoters
                      /\ e.votingPower = req[e.validator].value.votingPower
                      /\ Cardinality({i \in ValidVoters : i < e.validator}) = k - 1
         ELSE /\ Len(vnResult.signatures) = Cardinality(SignedEntries(FirstAggregated))
              /\ \A k \in 1..Len(vnResult.signatures) :
                   \E j \in SignedEntries(FirstAggregated) :
                     /\ vnResult.signatures[k] = FirstAggregated.signatures[j]
                     /\ Cardinality({m \in SignedEntries(FirstAggregated) : m < j}) = k - 1
    ELSE vnResult.signatures = <<>>

\* an accepted aggregated result whose coordinator list had an unsigned entry
C4_Witness ==
  /\ vnPc = "done" /\ ~DirectMode /\ vnResult.valid
  /\ Len(FirstAggregated.signatures) = 2
  /\ Len(vnResult.signatures) = 1

\* C5: in direct mode the totals and the decision of verifyProof are those of
\* the validators that responded; a validator that ended without a response
\* adds nothing to totalVotingPower nor to validVotingPower.
C5_SilentValidatorExcluded ==
  (vnPc = "done" /\ DirectMode /\ UsableResponses) =>
    /\ vnResult.outcome = "returned"
    /\ vnResult.totalVotingPower = RespondedPower
    /\ vnResult.validVotingPower = ValidRespondedPower
    /\ vnResult.valid <=>
         (RespondedPower > 0
            /\ ValidRespondedPower * 10000 >= RespondedPower * thresholdBps)

\* one of three validators used up its attempts; the other two (100 and 200,
\* both valid) decide: accepted with total 300
C5_Witness ==
  /\ vnPc = "done" /\ validators = 3 /\ DirectMode
  /\ \E i \in Silent : req[i].attempt = MaxRetries
  /\ Cardinality(Responders) = 2
  /\ vnResult.valid /\ vnResult.totalVotingPower = 300

\* C6 as claimed: whatever one validator does, verifyProof returns a
\* consensus result computed from the other validators' responses.
C6_FailureIsolated ==
  (vnPc = "done" /\ DirectMode) =>
    /\ vnResult.outcome = "returned"
    /\ vnResult.totalVotingPower =
         SumPower({i \in Responders : req[i].value.hasPower})

\* C7 as claimed: every call ends accepted, rejected as threshold-not-met or
\* rejected as no-quorum; the reason is the no-quorum one exactly when the
\* total is 0 and the threshold-not-met one exactly when the total is
\* positive and the inequality fails.
C7_ThreeOutcomes ==
  LET total == ComputedTotal
      validPower == IF DirectMode THEN ValidRespondedPower
                    ELSE FirstAggregated.validVotingPower
  IN vnPc = "done" =>
       /\ vnResult.outcome = "returned"
       /\ vnResult.valid \/ vnResult.reason \in
            {"No validator voting power", "Threshold not met"}
       /\ (~vnResult.valid /\ vnResult.reason = "No validator voting power")
            <=> total = 0
       /\ (~vnResult.valid /\ vnResult.reason = "Threshold not met")
            <=> (total > 0 /\ validPower * 10000 < total * thresholdBps)

\* C8: on an aggregated response carrying (totalVotingPower,
\* validVotingPower) verifyProof decides as its direct branch decides on
\* votes that add up to the same two totals, under the same thresholdBps.
C8_AggregatedEqualsDirect ==
  (vnPc = "done" /\ ~DirectMode) =>
    LET t == FirstAggregated.totalVotingPower
        p == FirstAggregated.validVotingPower
    IN vnResult.valid =
         verifyProofDirect(<<VoteResp(1, TRUE, TRUE, p),
                             VoteResp(2, FALSE, TRUE, t - p)>>,
                           thresholdBps).valid

\* an aggregated response exactly on the threshold (100 of 200 at 5000 bps)
C8_Witness ==
  /\ vnPc = "done" /\ ~DirectMode /\ vnResult.valid
  /\ FirstAggregated.validVotingPower * 10000
       = FirstAggregated.totalVotingPower * thresholdBps

\* C10: verifyProof has a result only when the request to every configured
\* validator has settled.
C10_WaitsForAll ==
  vnResult.outcome # "none" =>
    \A i \in 1..validators : req[i].st = "settled"

\* the responses so far meet the threshold, one request is still running,
\* and the call has not returned
C10_Witness ==
  /\ vnPc = "collecting" /\ vnResult.outcome = "none" /\ validators = 3
  /\ \E i \in 1..validators : req[i].st \in {"inflight", "backoff"}
  /\ DirectMode /\ UsableResponses /\ RespondedPower > 0
  /\ ValidRespondedPower * 10000 >= RespondedPower * thresholdBps

\* C3: with the bypass disabled, submitSwap and submitWithdraw make an
\* on-chain call (validation submission or settlement) only after verifyProof
\* returned valid=true for the request's own proof and public signals; a
\* rejected consensus ends the request as failed, before any on-chain call,
\* and the caller is told the rejection reason.
C3_ConsensusBeforeChain ==
  ~bypass =>
    /\ onchain # <<>> =>
         /\ validationResult.outcome = "returned"
         /\ validationResult.valid
         /\ attested = ProofOf(pipeKind)
    /\ (validationResult.outcome = "returned" /\ ~validationResult.valid) =>
         /\ pipePc = "failed"
         /\ onchain = <<>>
         /\ httpResponse.status = 500
         /\ httpResponse.error =
              <<"Validator consensus failed", validationResult.reason>>

\* a withdraw that was attested, submitted its validations and settled
C3_Witness ==
  /\ ~bypass /\ pipeKind = "withdraw" /\ pipePc = "confirmed"
  /\ onchain = <<"submitValidations", "settle">>
  /\ attested = ProofOf("withdraw") /\ validationResult.valid

\* the staked power of the entries of request r whose staker answered
RECURSIVE RespondedStake(_, _)
RespondedStake(r, k) ==
  IF k > Len(vreq[r].results) THEN 0
  ELSE (IF vreq[r].results[k].status = "fulfilled"
        THEN StakerPower(stakers, vreq[r].connected[k].addr) ELSE 0)
         + RespondedStake(r, k + 1)

\* C9 as claimed: the totalVotingPower of a coordinator /verify response is
\* the sum of the voting power of the stakers that responded; a staker that
\* did not answer within the timeout is left out of it.
C9_TotalIsRespondedPower ==
  [][\A r \in VerifyIds :
       (vreq[r].st = "waiting" /\ vreq'[r].st = "done") =>
         vreq'[r].response.totalVotingPower = RespondedStake(r, 1)]_vars

\* ------------------------------------------------ requestValidation claims
PostsMade == SelectSeq(rvLog, LAMBDA e : e.ev = "post")
DelaysWaited == SelectSeq(rvLog, LAMBDA e : e.ev = "wait")
GaveUp == rvPc = "returned" /\ rvValue.kind = "null"
AlwaysTimedOut == \A j \in 1..Len(PostsMade) : PostsMade[j].outcome = "timeout"

\* C11: a requestValidation call whose every attempt fails posts exactly
\* maxRetries times, waits retryBaseMs * 2^(k-1) between attempt k and
\* attempt k+1 (delays strictly increasing, none after the last attempt),
\* then returns null, which adds no voting power; an attempt that succeeds
\* is the last post of the call.
C11_RetrySchedule ==
  /\ \A j \in 1..Len(PostsMade) :
       /\ PostsMade[j].attempt = j
       /\ PostsMade[j].outcome = "ok" => j = Len(PostsMade) /\ rvPc = "returned"
  /\ \A k \in 1..Len(DelaysWaited) :
       /\ DelaysWaited[k].attempt = k
       /\ DelaysWaited[k].ms = rvCfg.retryBaseMs * (2 ^ (k - 1))
       /\ k > 1 => DelaysWaited[k].ms > DelaysWaited[k - 1].ms
       /\ Len(PostsMade) >= k /\ k < rvCfg.maxRetries
  /\ \A j \in 1..Len(rvLog) :
       rvLog[j].ev = (IF j % 2 = 1 THEN "post" ELSE "wait")
  /\ GaveUp =>
       /\ Len(PostsMade) = rvCfg.maxRetries
       /\ Len(DelaysWaited) = (IF rvCfg.maxRetries = 0 THEN 0 ELSE rvCfg.maxRetries - 1)
       /\ rvLog # <<>> => rvLog[Len(rvLog)].ev = "post"
       /\ \A j \in 1..Len(PostsMade) : PostsMade[j].outcome # "ok"
       /\ TotalVotingPower(Validations(<<rvValue>>)) = 0
  /\ rvPc = "returned" /\ rvValue.kind # "null" =>
       /\ rvLog # <<>>
       /\ rvLog[Len(rvLog)].ev = "post"
       /\ rvLog[Len(rvLog)].outcome = "ok"

C11_Witness ==
  /\ GaveUp
  /\ rvCfg.maxRetries = MaxRetries
  /\ rvCfg.retryBaseMs = DefaultRetryBaseMs
  /\ Len(DelaysWaited) = 2
  /\ DelaysWaited[1].ms = 500 /\ DelaysWaited[2].ms = 1000

\* C12 as claimed: when every attempt timed out, the call has taken the
\* per-attempt timeout times the number of attempts when it gives up.
C12_TotalIsTimeoutTimesAttempts ==
  GaveUp /\ AlwaysTimedOut => rvNow = rvCfg.timeout * rvCfg.maxRetries

\* C12 amended: when every attempt timed out, the call has taken the
\* per-attempt timeout times the number of attempts plus the back-off delays
\* between them, retryBaseMs * (2^(maxRetries-1) - 1) in all.
C12_TotalIsTimeoutsPlusDelays ==
  GaveUp /\ AlwaysTimedOut =>
    rvNow = rvCfg.timeout * rvCfg.maxRetries
            + (IF rvCfg.maxRetries = 0 THEN 0
               ELSE rvCfg.retryBaseMs * ((2 ^ (rvCfg.maxRetries - 1)) - 1))

C12_Witness ==
  /\ GaveUp /\ AlwaysTimedOut
  /\ rvCfg = [timeout |-> DefaultTimeoutMs, maxRetries |-> MaxRetries,
              retryBaseMs |-> DefaultRetryBaseMs]
  /\ rvNow = 61500

\* -------------------------------------------------------- pipeline claims
OnchainCalls == {onchain[k] : k \in 1..Len(onchain)}
RequestEnded == pipePc \in {"confirmed", "failed"}

\* C15 as claimed: the validator signatures go to the threshold-verification
\* contract before the settlement call, and a request that made that
\* submission does not end without the settlement call having been attempted,
\* also when the submission reverted.
C15_ValidationFailureNotFatal ==
  /\ \A k \in 1..Len(onchain) :
       onchain[k] = "submitValidations" => \A j \in 1..k : onchain[j] # "settle"
  /\ ~bypass /\ RequestEnded /\ "submitValidations" \in OnchainCalls =>
       "settle" \in OnchainCalls

\* --------------------------------------------------------- handler claims
\* the running request has reached consensus, the chain or a receipt
WentOn ==
  \/ pipePc # "idle"
  \/ vnPc # "idle"
  \/ onchain # <<>>
  \/ hReceipt

\* intentSig is a signature by the key of intent.userAddress over the
\* submitted intent
SignedByUser(r) ==
  /\ r.intentSig.wellFormed
  /\ r.intentSig.over = r.intent
  /\ r.intentSig.signer = r.intent.userAddress.account

\* C13: a /swap request reaches consensus, settlement or a receipt only if
\* intentSig, over the submitted intent, recovers to intent.userAddress; a
\* request whose recovered signer differs is answered with an error and has
\* made no consensus round, no on-chain call and no receipt.
C13_SwapNeedsSignature ==
  hReq.kind = "swap" =>
    /\ (WentOn \/ hPc = "accepted") => SignedByUser(hReq)
    /\ (hReq.intentSig.wellFormed /\ ~SignedByUser(hReq)) =>
         /\ hPc = "answered"
         /\ httpResponse.status \in {400, 404}
         /\ ~WentOn

C13_Witness ==
  /\ hReq.kind = "swap"
  /\ ~hReq.intent.userAddress.checksum
  /\ SignedByUser(hReq)
  /\ pipePc = "confirmed"
  /\ hReceipt
  /\ ~bypass

\* C14 as claimed: a /swap or /withdraw request reaches consensus or the
\* chain only if it names an intentId stored by /intent whose deadline had
\* not passed when the request came in.
C14_SettledOnlyLiveIntent ==
  (hReq.kind \in {"swap", "withdraw"} /\ (pipePc # "idle" \/ onchain # <<>>)) =>
    /\ hReq.intentId \in 1..Len(intents)
    /\ intents[hReq.intentId].deadline >= hReq.at

\* ------------------------------------------------------------ tree claims
NumCommitments == Len(commitments)
Replayed == Len(lgCommitments) = NumCommitments

C18_OverflowFails ==
  NumCommitments > TreeCapacity =>
    /\ tRebuilt.called => tRebuilt.out.threw
    /\ tPath.called => tPath.out.threw

\* C19: for a list of 1 <= N <= 2^depth commitments and i < N,
\* buildMerklePath(list, i) succeeds, recombining leaf i with its path and
\* indices level by level gives the root it returned, and every sibling
\* whose subtree lies beyond the highest inserted index is zero[level].
C19_PathRoundTrip ==
  (tPath.called /\ NumCommitments <= TreeCapacity
     /\ tPath.targetIndex \in 0..(NumCommitments - 1)) =>
    /\ ~tPath.out.threw
    /\ Len(tPath.out.path) = TreeDepth /\ Len(tPath.out.indices) = TreeDepth
    /\ tRecombined # Undefined => tRecombined = toBigInt(tPath.out.root)
    /\ \A k \in 1..TreeDepth :
         LET pos == tPath.targetIndex \div (2 ^ (k - 1))
             sib == IF pos % 2 = 0 THEN pos + 1 ELSE pos - 1
         IN /\ tPath.out.indices[k] = pos % 2
            /\ sib * (2 ^ (k - 1)) > NumCommitments - 1 =>
                 tPath.out.path[k] = HexString(ZeroAt(k - 1))

C19_Witness ==
  /\ tPath.called /\ ~tPath.out.threw
  /\ NumCommitments = TreeCapacity - 1
  /\ tPath.targetIndex = NumCommitments - 1
  /\ tRecombined # Undefined
  /\ tRecombined = toBigInt(tPath.out.root)

\* ------------------------------------------------------- path look-up claims
PathServed == mResponse.status \in {"ok", "returned"}

\* C16 as claimed: a path obtained by rebuilding the tree from the ledger's
\* commitment list is served (GET /merkle) or returned for use
\* (fetchMerkleProofFromChain) only if the look-up has read the ledger's root
\* and the rebuilt root equals it.
C16_PathOnlyOnMatchingRoot ==
  PathServed =>
    /\ mOnChainRoot # HexString(Undefined)
    /\ mResponse.out.root = mOnChainRoot

\* ------------------------------------------------- generateSwapProof claims
\* the prover has been called
ProverCalled == proverInputs # NoCircuitInputs

\* C20: in the circuit inputs that generateSwapProof hands to the prover,
\* changeAmount = inputAmount - swapAmount - protocolFee - gasRefund, whatever
\* change amount the caller supplied, and outputCommitmentChange is the
\* commitment of the change note with that amount.
C20_ChangeConserved ==
  ProverCalled =>
    /\ BigInt(proverInputs.changeAmount) =
         BigInt(proverInputs.inputAmount) - BigInt(proverInputs.swapAmount)
           - BigInt(proverInputs.protocolFee) - BigInt(proverInputs.gasRefund)
    /\ proverInputs.outputCommitmentChange =
         mimcCommitment(BigInt(proverInputs.outputAssetIDChange),
                        BigInt(proverInputs.changeAmount),
                        BigInt(proverInputs.changeBlindingFactor),
                        BigInt(proverInputs.ownerPublicKey))

\* the caller supplied a change amount one unit above the conserved one, with
\* the commitment of the amount it supplied, and the prover got the conserved
\* amount and its commitment
C20_Witness ==
  /\ ProverCalled
  /\ toBigInt(swapData.outputNoteChange.amount) = ExpectedChange(swapData) + 1
  /\ swapData.outputNoteChange.commitment =
       NoteCommitment(swapData.outputNoteChange.assetID,
                      toBigInt(swapData.outputNoteChange.amount), 12, 13)
  /\ swapData.outputNoteChange.assetID = swapData.inputNote.assetID
  /\ BigInt(proverInputs.changeAmount) = ExpectedChange(swapData)
  /\ proverInputs.outputCommitmentChange =
       mimcCommitment(1, ExpectedChange(swapData), 12, 13)
  /\ ExpectedChange(swapData) > 0

\* generateSwapProof has gone past its corrections
Built == circuitInputs # NoCircuitInputs

\* C21: when swapAmount + protocolFee + gasRefund exceeds inputAmount, so that
\* the only conserving change amount is negative, generateSwapProof fails
\* instead of going on to proving, and it never emits circuit inputs with a
\* negative changeAmount.
C21_NegativeChangeFails ==
  /\ (gPc # "idle" /\ ExpectedChange(swapData) < 0) => (gPc = "threw" /\ ~ProverCalled)
  /\ Built => BigInt(circuitInputs.changeAmount) >= 0

\* C22: generateSwapProof does not go on to witness or proof generation with
\* an inputCommitment that differs from H(H(H(assetId, amount), blinding),
\* ownerKey) over the input note's own fields.
C22_InputCommitmentChecked ==
  (gPc = "proving" \/ ProverCalled) =>
    circuitInputs.inputCommitment =
      DecString(NoteHash(BigInt(circuitInputs.inputAssetID),
                         BigInt(circuitInputs.inputAmount),
                         BigInt(circuitInputs.inputBlindingFactor),
                         BigInt(circuitInputs.ownerPublicKey)))

\* C23: in the circuit inputs handed to the prover, outputCommitmentSwap and
\* outputCommitmentChange are H(H(H(assetId, amount), blinding), ownerKey)
\* over the final fields of their note, and nullifier is H(inputCommitment,
\* ownerKey), whatever the caller supplied for the three and whichever of the
\* asset-id, conservation and commitment corrections applied.
C23_CommitmentsRecomputed ==
  ProverCalled =>
    /\ proverInputs.outputCommitmentSwap =
         DecString(NoteHash(BigInt(proverInputs.outputAssetIDSwap),
                            BigInt(proverInputs.outputAmountSwap),
                            BigInt(proverInputs.swapBlindingFactor),
                            BigInt(proverInputs.ownerPublicKey)))
    /\ proverInputs.outputCommitmentChange =
         DecString(NoteHash(BigInt(proverInputs.outputAssetIDChange),
                            BigInt(proverInputs.changeAmount),
                            BigInt(proverInputs.changeBlindingFactor),
                            BigInt(proverInputs.ownerPublicKey)))
    /\ proverInputs.nullifier =
         DecString(mimc7(BigInt(proverInputs.inputCommitment),
                         BigInt(proverInputs.ownerPublicKey)))

\* the caller supplied a change note of another asset with a non-conserving
\* amount, and a nullifier, a swap commitment and a change commitment that
\* match none of the declared fields; the prover was called
C23_Witness ==
  /\ ProverCalled
  /\ swapData.outputNoteChange.assetID # swapData.inputNote.assetID
  /\ toBigInt(swapData.outputNoteChange.amount) # ExpectedChange(swapData)
  /\ toBigIntString(swapData.inputNote.nullifier) # proverInputs.nullifier
  /\ toBigIntString(swapData.outputNoteSwap.commitment) # proverInputs.outputCommitmentSwap
  /\ swapData.outputNoteChange.commitment #
       NoteCommitment(swapData.outputNoteChange.assetID,
                      toBigInt(swapData.outputNoteChange.amount), 12, 13)
  /\ proverInputs.outputAssetIDChange = proverInputs.inputAssetID

\* the supplied merkleRoot is not the root of the supplied input commitment
\* under the supplied path
SuppliedRootWrong ==
  toBigInt(swapData.merkleRoot) # RootOver(toBigInt(swapData.inputNote.commitment))

\* C24: when proofs are not bypassed and the root recomputed from the supplied
\* path differs from the supplied merkleRoot, generateSwapProof logs the
\* mismatch and goes on to the proving backend: it can still call the prover,
\* and it ends in an error only after the prover was called.
C24_RootMismatchNotFatal ==
  (~devBypassProofs /\ gPc # "idle" /\ SuppliedRootWrong) =>
    /\ "merkle root mismatch" \in gLog
    /\ gPc = "proving" => ENABLED ProofProve
    /\ gPc \in {"returned", "threw"} => ProverCalled

\* a request with a wrong root whose proving failed in the backend
C24_Witness ==
  /\ ProverCalled
  /\ gPc = "threw"
  /\ ~devBypassProofs
  /\ SuppliedRootWrong
  /\ ~InputCommitmentMismatch(proverInputs)
  /\ "merkle root mismatch" \in gLog

\* --------------------------------------------------------- receipt claims
\* C25: receipts are append-only: once a receipt is stored for an intentId, no
\* later request changes or removes it, neither in the in-memory map nor in
\* the persistent store.
C25_ReceiptsAppendOnly ==
  [][\A k \in 1..MaxIntents : receipts[k] # NoReceipt => receipts'[k] = receipts[k]]_vars

\* ---------------------------------------------------- prover backend claims
BackendRank(b) == CASE b = "native" -> 1 [] b = "zk-kit" -> 2 [] OTHER -> 3
BackendTried(b) == \E k \in 1..Len(bkTried) : bkTried[k] = b

C28_RegisteredOnlyWithOwnStake ==
  \A k \in 1..Len(stakers) :
    /\ stakers[k].votingPower >= MinStake
    /\ stakers[k].votingPower \in getVotingPower(stakers[k].addr)

\* the voting power of the entries of request r whose staker is still in the
\* registry
RECURSIVE PresentStake(_, _)
PresentStake(r, k) ==
  IF k > Len(vreq[r].connected) THEN 0
  ELSE (IF StakerIndex(stakers, vreq[r].connected[k].addr, 1) # 0
        THEN StakerPower(stakers, vreq[r].connected[k].addr) ELSE 0)
         + PresentStake(r, k + 1)

\* C29: a staker that disconnected while a /verify request was in flight is
\* absent from the aggregated response: it adds no voting power to
\* totalVotingPower or validVotingPower and no entry to signatures, whether
\* it disconnected before or after sending its reply.
C29_DisconnectedStakerAbsent ==
  [][\A r \in VerifyIds :
       (vreq[r].st = "waiting" /\ vreq'[r].st = "done") =>
         \A k \in 1..Len(vreq[r].connected) :
           StakerIndex(stakers, vreq[r].connected[k].addr, 1) = 0 =>
             /\ vreq'[r].response.totalVotingPower = PresentStake(r, 1)
             /\ vreq'[r].response.validVotingPower <= PresentStake(r, 1)
             /\ \A j \in 1..Len(vreq'[r].response.signatures) :
                  vreq'[r].response.signatures[j].validator # vreq[r].connected[k].addr]_vars

\* ---- C30 ----
\* what the staking contract may hold for the validators that did not answer:
\* any balance a validator can report
SilentStakes == [Silent -> Powers]

RECURSIVE SumStake(_, _)
SumStake(s, S) ==
  IF S = {} THEN 0
  ELSE LET i == CHOOSE x \in S : TRUE
       IN s[i] + SumStake(s, S \ {i})

\* C30: with the default threshold, a proof is accepted in direct mode only
\* if the validators that voted valid hold at least 66% of all staked voting
\* power, the stake of the validators that did not answer included, whatever
\* that stake is.
C30_AcceptedOnlyByTotalStake ==
  (vnPc = "done" /\ DirectMode /\ UsableResponses
     /\ thresholdBps = DefaultThresholdBps
     /\ vnResult.outcome = "returned" /\ vnResult.valid) =>
    \A s \in SilentStakes :
      ValidRespondedPower * 10000
        >= (RespondedPower + SumStake(s, Silent)) * DefaultThresholdBps

\* ---- C31 ----
\* C31: whenever submitSwap or submitWithdraw has made its settlement call,
\* the tuple's merkleRoot, nullifier and inputCommitment are the values of
\* the publicSignals the validators were given, and its merklePath and
\* merklePathIndices are those of the request's public inputs: nothing was
\* replaced after the consensus round.
C31_SettledWhatWasAttested ==
  sTuple # NoPublicInputs =>
    /\ toBigInt(sTuple.merkleRoot) = toBigInt(sSignals.merkleRoot)
    /\ toBigInt(sTuple.nullifier) = toBigInt(sSignals.nullifier)
    /\ toBigInt(sTuple.inputCommitment) = toBigInt(sSignals.inputCommitment)
    /\ sTuple = PublicInputsTuple(sPi, sPi.merkleRoot, LocalsOf(sPi).merklePath,
                                  LocalsOf(sPi).merklePathIndices)

\* ---- C32 ----
\* C32: a /swap request that passes the handler's checks (it is accepted, or
\* has gone on to consensus, the chain or a receipt) submitted the intent
\* that is stored under its intentId: the same user address (whatever its
\* letter case) and the same deadline.
C32_SubmittedIntentIsStored ==
  (hReq.kind = "swap" /\ (hPc = "accepted" \/ WentOn)) =>
    /\ IntentKnown(intents, hReq.intentId)
    /\ toLowerCase(hReq.intent.userAddress)
         = toLowerCase(intents[hReq.intentId].userAddress)
    /\ hReq.intent.deadline = intents[hReq.intentId].deadline

\* ---- C33 ----
\* C33: every entry of the coordinator's staker registry refers to a
\* connection that is open, and every open connection whose registration
\* was completed (its stake look-up returned at least the minimum and no
\* further register message is pending on it) has its entry.
C33_RegistryMatchesConnections ==
  /\ \A k \in 1..Len(stakers) : conn[stakers[k].ws].st = "open"
  /\ \A c \in Conns :
       (conn[c].st = "open" /\ conn[c].address # 0
          /\ ~\E a \in Addresses : <<c, a>> \in lookups) =>
         \E k \in 1..Len(stakers) : stakers[k].ws = c

\* ---- C34 ----
\* C34: with the bypass disabled, a relayer operation of any kind (swap,
\* withdraw, portfolio swap, portfolio deposit, portfolio withdraw) has made
\* an on-chain call only after verifyProof returned valid=true for it.
C34_EveryOperationAttested ==
  (~bypass /\ onchain # <<>>) =>
    /\ validationResult.outcome = "returned"
    /\ validationResult.valid

\* ---- C35 ----
\* the results of request r without the replies that carry another requestId
OwnResults(r) ==
  [k \in 1..Len(vreq[r].results) |->
     IF vreq[r].results[k].status = "fulfilled"
          /\ vreq[r].results[k].requestId # vreq[r].requestId
     THEN [vreq[r].results[k] EXCEPT !.status = "rejected"]
     ELSE vreq[r].results[k]]

\* C35: with several /verify requests in flight, every reply that resolved a
\* wait of a request carries that request's requestId, and the response of a
\* finished request (decision, valid voting power, signatures) is the tally
\* of the replies carrying its own requestId.
C35_RepliesByRequestId ==
  \A r \in VerifySlots :
    /\ \A k \in 1..Len(vreq[r].results) :
         vreq[r].results[k].status = "fulfilled" =>
           vreq[r].results[k].requestId = vreq[r].requestId
    /\ (vreq[r].st = "done" /\ vreq[r].response.status = 200) =>
         LET t == Tally(vreq[r].connected, OwnResults(r), stakers, 1)
         IN /\ vreq[r].response.validVotingPower = t.valid
            /\ vreq[r].response.signatures = t.signatures

\* two requests in flight on the same sockets: the first has finished with
\* staker 1's signed vote while the second still waits for staker 1
C35_Witness ==
  /\ vreq[1].st = "done" /\ vreq[2].st = "waiting"
  /\ vreq[1].requestId # vreq[2].requestId
  /\ vreq[1].results[1].status = "fulfilled"
  /\ Len(vreq[1].response.signatures) > 0
  /\ vreq[2].connected[1].ws = vreq[1].connected[1].ws
  /\ vreq[2].results[1].status = "pending"

\* the responders other than the endpoint of the first aggregated response
OtherResponders ==
  {i \in Responders : \E j \in AggregatedResponders : j < i}
    \cup {i \in Responders : req[i].value.kind # "agg"}

\* C36: when some response of a verifyProof call is flagged aggregated, the
\* call returns the totals of the first aggregated response (in the order of
\* the configured validators) and accepts exactly when that response's
\* validVotingPower times 10000 reaches its positive totalVotingPower times
\* thresholdBps; no other response enters the result.
C36_FirstAggregatedAlone ==
  (vnPc = "done" /\ ~DirectMode) =>
    /\ vnResult.outcome = "returned"
    /\ vnResult.totalVotingPower = FirstAggregated.totalVotingPower
    /\ vnResult.validVotingPower = FirstAggregated.validVotingPower
    /\ vnResult.valid <=>
         (FirstAggregated.totalVotingPower > 0
            /\ FirstAggregated.validVotingPower * 10000
                 >= FirstAggregated.totalVotingPower * thresholdBps)
    /\ \A k \in 1..Len(vnResult.signatures) :
         \E e \in SignedEntries(FirstAggregated) :
           vnResult.signatures[k] = FirstAggregated.signatures[e]

\* a rejected call in which, next to the first aggregated response, a
\* validator voted valid with positive power and a later aggregated response
\* carried totals that reach the threshold
C36_Witness ==
  /\ vnPc = "done" /\ ~DirectMode
  /\ vnResult.outcome = "returned" /\ ~vnResult.valid
  /\ \E i \in OtherResponders :
       /\ req[i].value.kind = "vote"
       /\ req[i].value.valid /\ req[i].value.votingPower > 0
  /\ \E i \in OtherResponders :
       /\ req[i].value.kind = "agg"
       /\ req[i].value.totalVotingPower > 0
       /\ req[i].value.validVotingPower * 10000
            >= req[i].value.totalVotingPower * thresholdBps

\* the validator addresses that answered the call
RespondingValidators == {req[i].value.validator : i \in Responders}

\* the largest power among the responses of validator address a (among its
\* valid votes if onlyValid), 0 if there is none
MaxPowerOf(a, onlyValid) ==
  LET S == {req[i].value.votingPower :
              i \in {j \in Responders :
                       /\ req[j].value.validator = a
                       /\ onlyValid => req[j].value.valid}}
  IN IF S = {} THEN 0 ELSE CHOOSE p \in S : \A q \in S : q <= p

RECURSIVE SumOncePerValidator(_, _)
SumOncePerValidator(A, onlyValid) ==
  IF A = {} THEN 0
  ELSE LET a == CHOOSE x \in A : TRUE
       IN MaxPowerOf(a, onlyValid) + SumOncePerValidator(A \ {a}, onlyValid)

\* C37: in a direct verifyProof call the reported totalVotingPower does not
\* exceed the sum, over the validator addresses that answered, of one response
\* of each address, and validVotingPower does not exceed that sum over the
\* addresses that voted valid: an address reached through two endpoints counts
\* once.
C37_ValidatorCountedOnce ==
  (vnPc = "done" /\ DirectMode /\ UsableResponses /\ vnResult.outcome = "returned") =>
    /\ vnResult.totalVotingPower <= SumOncePerValidator(RespondingValidators, FALSE)
    /\ vnResult.validVotingPower <= SumOncePerValidator(RespondingValidators, TRUE)

\* C38: the circuit inputs generateSwapProof wrote to the debug artifact are
\* the circuit inputs it called the prover with.
C38_DebugArtifactIsProverInput ==
  ProverCalled => debugArtifact = proverInputs

\* C39: whatever merklePath and merklePathIndices the caller supplied, the
\* two arrays generateSwapProof, generateWithdrawProof and
\* normalizeJoinSplitPublicInputs build have the tree's depth as their length
\* and every entry of merklePathIndices is "0" or "1".
C39_MerkleArraysWellFormed ==
  mfOut.fn # "none" =>
    /\ Len(mfOut.merklePath) = TreeDepth
    /\ Len(mfOut.merklePathIndices) = TreeDepth
    /\ \A k \in 1..TreeDepth :
         mfOut.merklePathIndices[k] \in {DecString(0), DecString(1)}

\* the sockets of the client that have not closed, and those that have
LiveSockets == {k \in 1..Len(cSocks) : cSocks[k].st # "closed"}
ClosedSockets == {k \in 1..Len(cSocks) : cSocks[k].st = "closed"}

\* every close has led to exactly one pending timer or one new socket, each
\* new socket was created 5000 ms after the close before it, an open socket
\* has sent register, and at most one socket is not closed
ClientSafe ==
  /\ Len(cSocks) + Len(cTimers) = Cardinality(ClosedSockets) + 1
  /\ \A k \in 2..Len(cSocks) : cSocks[k].waited = 5000
  /\ \A k \in 1..Len(cSocks) : cSocks[k].st = "open" => cSocks[k].sentRegister
  /\ Cardinality(LiveSockets) <= 1

\* C40: after a connection of the validator client has closed, the client
\* opens exactly one new connection 5 seconds later and sends register when
\* it opens, it never holds more than one open connection, and with a
\* reachable coordinator and sufficient stake it is eventually registered on
\* a later connection.
C40_ReconnectsOnceAndRegisters ==
  /\ []ClientSafe
  /\ \A k \in 1..MaxSockets :
       (k \in ClosedSockets) ~>
         (\E j \in 1..Len(cSocks) : j > k /\ cSocks[j].registered)

\* the first connection has closed and the connection made 5 seconds later
\* is registered
C40_Witness ==
  /\ Len(cSocks) >= 2
  /\ cSocks[1].st = "closed"
  /\ cSocks[2].registered
  /\ cSocks[2].waited = 5000
  /\ cFaults >= 1

====
